---- MODULE Spec2Model ----
(***************************************************************************)
(* Slideshow controller of src/slides.py (main, callback, tft_standby,     *)
(* displayfile as seen by main) on top of the TFT driver of src/tft.py.    *)
(*                                                                         *)
(* The main program is one thread of control; pc is its position.  The     *)
(* rising-edge interrupt handler `callback` runs between any two steps of  *)
(* main once the interrupt source has been registered.                     *)
(*                                                                         *)
(* Spec follows the slideshow and sees the display through mytft (profile, *)
(* panel power, backlight, pin mode).  DriverSpec starts from a driver     *)
(* that has been constructed and follows its bus routines register access  *)
(* by register access, and its drawing primitives call by call.            *)
(***************************************************************************)
EXTENDS Integers, Sequences, FiniteSets, TLC

\* ------------------------------------------------------------------------
\* Program constants (src/slides.py:13-25, src/tft.py:53-54)
\* ------------------------------------------------------------------------
COUNTER == 5
TOTAL_COUNTER == 100
BANNER_COUNTER == 20
BANNER_NAME == "banner.bmp"
TOOLOWBAT == 200
\* int((5.4 - OFFSET) / 3.3 / SCALING * 4096) with OFFSET = 0.0, SCALING = 7.86,
\* computed in integers: 5.4 * 4096 / (3.3 * 7.86), truncated
LOWBAT == (5400 * 4096) \div (33 * 786)
\* int((5.8 - OFFSET) / 3.3 / SCALING * 4096)
WARNBAT == (5800 * 4096) \div (33 * 786)
PORTRAIT == 1
LANDSCAPE == 0
\* bits of the control lines in the registers of GPIOB (tft.py:44-46)
RD == 2048
WR == 1
D_C == 2

\* ------------------------------------------------------------------------
\* Bounds of the model
\* ------------------------------------------------------------------------
\* total_cnt is not bounded by the program when activity never stops; the
\* picture step is cut off here
MaxTotal == 102
\* pyb.rng() returns a 30 bit number; draws are taken from 0 .. MaxRng
MaxRng == 3
\* bytes of payload of a command, and bytes read back, are 0 .. MaxBytes
MaxBytes == 2
\* pixels of one stream are 0 .. MaxPixels
MaxPixels == 2
\* the panel the primitives draw on has the columns 0 .. MaxX and the rows
\* 0 .. MaxY (disp_x_size, disp_y_size)
MaxX == 6
MaxY == 6
\* circles have the radii 0 .. MaxRadius, fonts the heights 1 .. MaxRows
MaxRadius == 2
MaxRows == 2
\* lines the cursor goes down without a scroll area before the run is cut
MaxTextY == 6

\* ------------------------------------------------------------------------
\* Environment inputs
\* ------------------------------------------------------------------------
\* the panel sizes main() branches on (slides.py:143, 160-165, 169, 178);
\* the shipped setting is TFT_SIZE = 9 (slides.py:25)
TFT_SIZES == {4, 7, 9}
\* ADC readings around the two thresholds of the admission rule
BatSamples == {TOOLOWBAT - 1, TOOLOWBAT, TOOLOWBAT + 1, LOWBAT - 1, LOWBAT}
\* what os.listdir(".") can return: the banner and one picture, in any order
PICTURE_NAME == "a.bmp"
Listings == { <<>>, <<BANNER_NAME>>, <<PICTURE_NAME>>,
              <<BANNER_NAME, PICTURE_NAME>>, <<PICTURE_NAME, BANNER_NAME>> }

VARIABLES
    TFT_SIZE,    \* build-time panel selection
    pc,          \* position of main()
    USBSUPPLY,   \* vbus.value() sampled at startup
    TESTMODE,    \* usb.isconnected() sampled at the top of each iteration
    batval,      \* last adc.read()
    total_cnt,   \* pictures shown since startup
    start,       \* inactivity counter
    PIR_flag,    \* activity flag, set by callback
    files,       \* os.listdir(".")
    name,        \* file selected for this iteration
    extint,      \* TRUE once the interrupt source is registered and enabled
    mytft,       \* driver object: profile known, panel power, backlight, pins
    shown,       \* history: what displayfile was called for in this iteration,
                 \* and whether it ended in the clrSCR() of its except branch
    idle,        \* history: consecutive iterations that ended with the flag unset
    testSeen,    \* history: TESTMODE was sampled TRUE since startup
    gpioa,       \* GPIOA output data register, bits 0..7: the data lines X1..X8
    gpioam,      \* GPIOA mode register, bits 0..15: direction of X1..X8
    gpiob,       \* GPIOB output data register: the control lines
    prog,        \* register accesses the running bus routine has still to make
    call,        \* the driver routine that is running or has just finished
    last,        \* history: the register of the previous access of the routine
    sent,        \* history: what the controller has latched since the call
    rdata,       \* bytes sampled by the read since the call
    windows,     \* history: address windows a drawing primitive has set
    self,        \* the text attributes of the TFT object
    vsp,         \* the scroll start register of the controller (command 0x37)
    exc,         \* the last operation on the object ended in an exception
    ops,         \* history: the calls the last operation has made, in order
    dec          \* displayfile at work: its locals and the rows left in the file

\* the slideshow and the display as the slideshow sees it
slides == << TFT_SIZE, pc, USBSUPPLY, TESTMODE, batval, total_cnt, start, PIR_flag,
             files, name, extint, mytft, shown, idle, testSeen >>

\* the registers and the driver routine at work
driver == << gpioa, gpioam, gpiob, prog, call, last, sent, rdata, windows >>

\* the text renderer and the image decoder
upper == << self, vsp, exc, ops, dec >>

vars == << slides, driver, upper >>

\* everything of the program and the display except pc and PIR_flag
others == << driver, upper, TFT_SIZE, USBSUPPLY, TESTMODE, batval, total_cnt, start,
             files, name, extint, mytft, shown, idle, testSeen >>

\* ------------------------------------------------------------------------
\* Integer operations of the program on register values
\* ------------------------------------------------------------------------
RECURSIVE BitAnd(_, _)
\* a & b for b >= 0
BitAnd(a, b) ==
    IF b = 0 THEN 0
    ELSE (a % 2) * (b % 2) + 2 * BitAnd(a \div 2, b \div 2)

RECURSIVE BitOr(_, _)
\* a | b for a, b >= 0
BitOr(a, b) ==
    IF a = 0 THEN b
    ELSE IF b = 0 THEN a
    ELSE (IF a % 2 = 1 \/ b % 2 = 1 THEN 1 ELSE 0) + 2 * BitOr(a \div 2, b \div 2)

\* a << n, a >> n
Shl(a, n) == a * (2 ^ n)

Shr(a, n) == a \div (2 ^ n)

\* no routine of the driver is running: the pins X1..X8, Y10, Y11, Y12 are
\* outputs (tft.py:87-90), the control lines are high, the data lines low
\* after the last command of clrSCR, setScrollStart(0) (tft.py:374, 583)
BusIdle ==
    /\ gpioa = 0
    /\ gpioam = 21845
    /\ gpiob = BitOr(RD, BitOr(WR, D_C))
    /\ prog = <<>>
    /\ call = [ fn |-> "none", a |-> <<>>, data |-> <<>>, aux |-> <<>> ]
    /\ last = "none"
    /\ sent = <<>>
    /\ rdata = <<>>
    /\ windows = <<>>

\* width, height = getScreensize() of the landscape panel (slides.py:167);
\* setTextPos(0, 0) of tft_init stores them as text_width, text_height
width == MaxX + 1

height == MaxY + 1

\* the attributes tft_init leaves behind: setTextPos(0, 0),
\* setTextStyle(None, None, 0, None, 0), clrSCR(); has lists the attributes
\* that are set only by a later call (text_font with text_rows, scroll_vsa)
TextAttrs ==
    [ has |-> {}, text_x |-> 0, text_y |-> 0, text_rows |-> 0, text_gap |-> 0,
      transparency |-> 0, scroll_start |-> 0, scroll_vsa |-> 0 ]

\* displayfile is not running
NoFile ==
    [ pc |-> "idle", kind |-> "none", colors |-> 0, imgheight |-> 0, fits |-> TRUE,
      full |-> 0, tail |-> FALSE, skip |-> 0, row |-> 0, next |-> 0, read |-> 0,
      imgwidth |-> 0, compress |-> 0, ct_size |-> 0, bsize |-> 0 ]

\* no operation has run on the object and no file is being decoded
UpperIdle ==
    /\ self = TextAttrs
    /\ vsp = 0
    /\ exc = FALSE
    /\ ops = <<>>
    /\ dec = NoFile

Range(s) == { s[i] : i \in 1..Len(s) }

\* the driver before tft.TFT(...) has run
NoTFT == [ inited |-> FALSE, orientation |-> LANDSCAPE,
           power |-> FALSE, led |-> 0, pins |-> "reset", pll |-> FALSE,
           setXY |-> "none" ]

\* the state of a freshly reset board running main() from its first line
Fresh(size) ==
    /\ TFT_SIZE = size
    /\ pc = "boot"
    /\ USBSUPPLY = FALSE
    /\ TESTMODE = FALSE
    /\ batval = 0
    /\ total_cnt = 0
    /\ start = 0
    /\ PIR_flag = FALSE
    /\ files = <<>>
    /\ name = ""
    /\ extint = FALSE
    /\ mytft = NoTFT
    /\ shown = <<>>
    /\ idle = 0
    /\ testSeen = FALSE
    /\ BusIdle
    /\ UpperIdle

Init == \E size \in TFT_SIZES : Fresh(size)

\* ------------------------------------------------------------------------
\* Admission rule
\* ------------------------------------------------------------------------
LowBattery_NoLowerBound(b, usb) == b < LOWBAT /\ usb = FALSE

LowBattery_IgnoresUSB(b, usb) == TOOLOWBAT < b /\ b < LOWBAT

\* (TOOLOWBAT < batval < LOWBAT) and USBSUPPLY == False
LowBattery(b, usb) == (TOOLOWBAT < b /\ b < LOWBAT) /\ usb = FALSE

\* vbus.value(), adc.read()
Boot ==
    /\ pc = "boot"
    /\ USBSUPPLY' \in BOOLEAN
    /\ batval' \in BatSamples
    /\ pc' = "admission"
    /\ UNCHANGED << driver, upper, TFT_SIZE, TESTMODE, total_cnt, start, PIR_flag, files, name,
                    extint, mytft, shown, idle, testSeen >>

\* low battery, switch off: while True: pyb.stop()
Admission ==
    /\ pc = "admission"
    /\ pc' = IF LowBattery(batval, USBSUPPLY) THEN "stop_boot" ELSE "tft_new"
    /\ UNCHANGED << PIR_flag, others >>

\* ------------------------------------------------------------------------
\* Driver construction (tft.py) and display start (slides.py:160-167)
\* ------------------------------------------------------------------------
LcdType(size) == IF size = 7 THEN "AT070TN92"
                 ELSE IF size = 4 THEN "LB04301" ELSE "AT090TN10"

Orientation(size) == IF size = 4 THEN LANDSCAPE ELSE PORTRAIT

\* the panel profiles tft_init has a branch for
KnownLcd(lcd_type) == lcd_type \in {"LB04301", "AT070TN92"}

\* tft_init: backlight off, panel power on, pins to output; setXY is bound to
\* setXY_P or setXY_L by the orientation given; for the known
\* controller the PLL is enabled and the software reset sent before the panel
\* profile is looked at; the display geometry is set only in the branch of a
\* known panel profile
TftInit(controller, lcd_type, orientation) ==
    [ inited |-> (controller = "SSD1963" /\ KnownLcd(lcd_type)),
      orientation |-> orientation,
      power |-> TRUE, led |-> 0, pins |-> "output",
      pll |-> (controller = "SSD1963"),
      setXY |-> (IF orientation = PORTRAIT THEN "setXY_P" ELSE "setXY_L") ]

\* mytft = tft.TFT(...); mytft.clrSCR(); mytft.getScreensize()
\* clrSCR reads disp_x_size, which an aborted tft_init has not set
StartTFT ==
    /\ pc = "tft_new"
    /\ mytft' = TftInit("SSD1963", LcdType(TFT_SIZE), Orientation(TFT_SIZE))
    /\ pc' = IF mytft'.inited THEN "extint" ELSE "crashed"
    /\ UNCHANGED << driver, upper, TFT_SIZE, USBSUPPLY, TESTMODE, batval, total_cnt, start, PIR_flag,
                    files, name, extint, shown, idle, testSeen >>

\* extint = pyb.ExtInt(..., callback); extint.enable()
EnableExtInt ==
    /\ pc = "extint"
    /\ extint' = TRUE
    /\ pc' = "init_vars"
    /\ UNCHANGED << driver, upper, TFT_SIZE, USBSUPPLY, TESTMODE, batval, total_cnt, start, PIR_flag,
                    files, name, mytft, shown, idle, testSeen >>

\* total_cnt = 0; os.chdir; files = os.listdir("."); start = COUNTER; PIR_flag = False
InitVars ==
    /\ pc = "init_vars"
    /\ total_cnt' = 0
    /\ files' \in Listings
    /\ start' = COUNTER
    /\ PIR_flag' = FALSE
    /\ pc' = "loop_top"
    /\ UNCHANGED << driver, upper, TFT_SIZE, USBSUPPLY, TESTMODE, batval, name, extint, mytft,
                    shown, idle, testSeen >>

\* ------------------------------------------------------------------------
\* The Running loop (slides.py:187-248)
\* ------------------------------------------------------------------------
\* TESTMODE = usb.isconnected()
LoopTop ==
    /\ pc = "loop_top"
    /\ TESTMODE' \in BOOLEAN
    /\ testSeen' = (testSeen \/ TESTMODE')
    /\ pc' = "select"
    /\ UNCHANGED << driver, upper, TFT_SIZE, USBSUPPLY, batval, total_cnt, start, PIR_flag, files,
                    name, extint, mytft, shown, idle >>

\* files[myrng % len(files)], lists being indexed from 0 in the program
Pick(fs, rng) == fs[(rng % Len(fs)) + 1]

Accepted_Always(nm) == TRUE

\* if name != BANNER_NAME: break
Accepted(nm) == nm # BANNER_NAME

\* one pass of "while True: myrng = pyb.rng(); name = files[myrng % len(files)]";
\* an empty listing raises ZeroDivisionError
Select ==
    /\ pc = "select"
    /\ IF Len(files) = 0
         THEN pc' = "crashed" /\ name' = name
         ELSE \E myrng \in 0..MaxRng :
                /\ name' = Pick(files, myrng)
                /\ pc' = IF Accepted(name') THEN "recheck" ELSE "select"
    /\ UNCHANGED << driver, upper, TFT_SIZE, USBSUPPLY, TESTMODE, batval, total_cnt, start, PIR_flag,
                    files, extint, mytft, shown, idle, testSeen >>

TftStandby_KeepsPower(t) == [ t EXCEPT !.led = 0, !.pins = "input" ]

\* tft_standby: backlight off, power off, pins to pulled inputs
TftStandby(t) == [ t EXCEPT !.led = 0, !.power = FALSE, !.pins = "input" ]

Recheck_AfterBanner ==
    /\ pc = "recheck"
    /\ batval' \in BatSamples
    /\ IF LowBattery(batval', USBSUPPLY)
         THEN /\ mytft' = TftStandby(mytft)
              /\ pc' = "stop_bat"
              /\ shown' = IF total_cnt % BANNER_COUNTER = 0
                             THEN Append(shown, [ what |-> "banner", file |-> BANNER_NAME,
                                                  color |-> <<255, 0, 0>>,
                                                  cleared |-> BANNER_NAME \notin Range(files) ])
                             ELSE shown
         ELSE mytft' = mytft /\ pc' = "banner" /\ shown' = shown
    /\ UNCHANGED << driver, upper, TFT_SIZE, USBSUPPLY, TESTMODE, total_cnt, start, PIR_flag,
                    files, name, extint, idle, testSeen >>

\* batval = adc.read(); low battery: tft_standby(mytft); while True: pyb.stop()
Recheck ==
    /\ pc = "recheck"
    /\ batval' \in BatSamples
    /\ IF LowBattery(batval', USBSUPPLY)
         THEN mytft' = TftStandby(mytft) /\ pc' = "stop_bat"
         ELSE mytft' = mytft /\ pc' = "banner"
    /\ UNCHANGED << driver, upper, TFT_SIZE, USBSUPPLY, TESTMODE, total_cnt, start, PIR_flag,
                    files, name, extint, shown, idle, testSeen >>

BannerDue_AfterIncrement(cnt) == (cnt + 1) % BANNER_COUNTER = 0

\* (total_cnt % BANNER_COUNTER) == 0
BannerDue(cnt) == cnt % BANNER_COUNTER = 0

\* colour of the banner text by threshold band
TextColor(b) == IF LOWBAT <= b /\ b < WARNBAT THEN <<255, 255, 0>>
                ELSE IF TOOLOWBAT < b /\ b < LOWBAT THEN <<255, 0, 0>>
                ELSE <<0, 255, 0>>

\* displayfile returning to its caller: a file that is there is decoded and
\* the backlight set to 100; FileNotFoundError is caught and the screen cleared
DisplayFile(t, nm) == IF nm \in Range(files) THEN [ t EXCEPT !.led = 100 ] ELSE t

MayRaise_Uncaught(nm) == BOOLEAN

\* displayfile catches FileNotFoundError only: any other exception raised
\* while decoding a file that is there reaches main
MayRaise(nm) == IF nm \in Range(files) THEN BOOLEAN ELSE {FALSE}

\* the banner every BANNER_COUNTER pictures, with the battery text on it
Banner ==
    /\ pc = "banner"
    /\ IF BannerDue(total_cnt)
         THEN \E raised \in MayRaise(BANNER_NAME) :
                /\ shown' = Append(shown, [ what |-> "banner", file |-> BANNER_NAME,
                                            color |-> TextColor(batval),
                                            cleared |-> BANNER_NAME \notin Range(files) ])
                /\ mytft' = IF raised THEN mytft ELSE DisplayFile(mytft, BANNER_NAME)
                /\ pc' = IF raised THEN "crashed" ELSE "picture"
         ELSE shown' = shown /\ mytft' = mytft /\ pc' = "picture"
    /\ UNCHANGED << driver, upper, TFT_SIZE, USBSUPPLY, TESTMODE, batval, total_cnt, start, PIR_flag,
                    files, name, extint, idle, testSeen >>

\* total_cnt += 1; displayfile(mytft, name, width, height); pyb.delay(PICT_TIME)
Picture ==
    /\ pc = "picture"
    /\ total_cnt < MaxTotal
    /\ total_cnt' = total_cnt + 1
    /\ \E raised \in MayRaise(name) :
         /\ shown' = Append(shown, [ what |-> "picture", file |-> name,
                                     color |-> <<>>,
                                     cleared |-> name \notin Range(files) ])
         /\ mytft' = IF raised THEN mytft ELSE DisplayFile(mytft, name)
         /\ pc' = IF raised THEN "crashed" ELSE "flag_check"
    /\ UNCHANGED << driver, upper, TFT_SIZE, USBSUPPLY, TESTMODE, batval, start, PIR_flag,
                    files, name, extint, idle, testSeen >>

Expired_OffByOne(st, cnt) == st < 0 \/ cnt > TOTAL_COUNTER

\* start <= 0 or total_cnt > TOTAL_COUNTER
Expired(st, cnt) == st <= 0 \/ cnt > TOTAL_COUNTER

\* the idle history counts no further than this
IdleCap == COUNTER + 1

\* if PIR_flag == False: start -= 1; if start <= 0 or total_cnt > TOTAL_COUNTER: ...
\* else: (activity) ...
FlagCheck ==
    /\ pc = "flag_check"
    /\ IF PIR_flag = FALSE
         THEN /\ start' = start - 1
              /\ idle' = IF idle < IdleCap THEN idle + 1 ELSE idle
              /\ IF Expired(start', total_cnt)
                   THEN pc' = (IF TESTMODE = FALSE THEN "standby" ELSE "notice")
                        /\ shown' = shown
                   ELSE pc' = "loop_top" /\ shown' = <<>>
         ELSE /\ start' = start
              /\ idle' = 0
              /\ pc' = "activity"
              /\ shown' = shown
    /\ UNCHANGED << driver, upper, TFT_SIZE, USBSUPPLY, TESTMODE, batval, total_cnt, PIR_flag,
                    files, name, extint, mytft, testSeen >>

\* else: PIR_flag = False; start = COUNTER
Activity ==
    /\ pc = "activity"
    /\ PIR_flag' = FALSE
    /\ start' = COUNTER
    /\ pc' = "loop_top"
    /\ shown' = <<>>
    /\ UNCHANGED << driver, upper, TFT_SIZE, USBSUPPLY, TESTMODE, batval, total_cnt, files, name,
                    extint, mytft, idle, testSeen >>

\* tft_standby(mytft); pyb.delay(200); pyb.stop()
Standby ==
    /\ pc = "standby"
    /\ mytft' = TftStandby(mytft)
    /\ pc' = "stopped"
    /\ UNCHANGED << driver, upper, TFT_SIZE, USBSUPPLY, TESTMODE, batval, total_cnt, start, PIR_flag,
                    files, name, extint, shown, idle, testSeen >>

\* mytft.printNewline() on the object as main() has set it up: clrSCR(),
\* setTextStyle((255, 255, 255), None, 0, font14), setTextPos(0, 0) and
\* printString set the font but no scroll area, and printNewline reads
\* self.scroll_vsa
NoticeRaises == "scroll_vsa" \notin (TextAttrs.has \cup {"text_font"})

\* test mode: the notice instead of the sleep (the screen is cleared, the
\* battery is read again and the first line is printed), then
\* if total_cnt > TOTAL_COUNTER: total_cnt = 0; PIR_flag = False; start = COUNTER
\* unless a call of the notice has raised, which ends main()
Notice ==
    /\ pc = "notice"
    /\ batval' \in BatSamples
    /\ IF NoticeRaises
         THEN /\ pc' = "crashed"
              /\ UNCHANGED << total_cnt, PIR_flag, start >>
         ELSE /\ total_cnt' = (IF total_cnt > TOTAL_COUNTER THEN 0 ELSE total_cnt)
              /\ PIR_flag' = FALSE
              /\ start' = COUNTER
              /\ pc' = "loop_top"
    /\ shown' = <<>>
    /\ UNCHANGED << driver, upper, TFT_SIZE, USBSUPPLY, TESTMODE, files, name, extint, mytft,
                    idle, testSeen >>

\* a reset: the interpreter starts main() again with nothing kept
Restart ==
    /\ pc' = "boot"
    /\ USBSUPPLY' = FALSE
    /\ TESTMODE' = FALSE
    /\ batval' = 0
    /\ total_cnt' = 0
    /\ start' = 0
    /\ PIR_flag' = FALSE
    /\ files' = <<>>
    /\ name' = ""
    /\ extint' = FALSE
    /\ mytft' = NoTFT
    /\ shown' = <<>>
    /\ idle' = 0
    /\ testSeen' = FALSE
    /\ UNCHANGED << driver, upper, TFT_SIZE >>

HardReset_ResumesLoop ==
    /\ pc = "woken"
    /\ pc' = "loop_top"
    /\ mytft' = [ mytft EXCEPT !.power = TRUE, !.pins = "output" ]
    /\ UNCHANGED << driver, upper, TFT_SIZE, USBSUPPLY, TESTMODE, batval, total_cnt, start, PIR_flag,
                    files, name, extint, shown, idle, testSeen >>

\* pyb.stop() has returned: pyb.hard_reset()
HardReset ==
    /\ pc = "woken"
    /\ Restart

\* "stay there until reset": the reset button in a low-battery sleep
ResetButton ==
    /\ pc \in {"stop_boot", "stop_bat"}
    /\ Restart

\* ------------------------------------------------------------------------
\* The interrupt
\* ------------------------------------------------------------------------
callback_ResetsTimer ==
    /\ PIR_flag' = TRUE
    /\ start' = COUNTER
    /\ UNCHANGED << driver, upper, TFT_SIZE, USBSUPPLY, TESTMODE, batval, total_cnt,
                    files, name, extint, mytft, shown, idle, testSeen >>

\* def callback(line): global PIR_flag; PIR_flag = True
callback ==
    /\ PIR_flag' = TRUE
    /\ UNCHANGED others

\* a rising edge on the sensor line once the source is enabled: the handler
\* runs; a CPU stopped by pyb.stop() leaves the stop (in the low-battery
\* loop it stops again at once)
Interrupt ==
    /\ extint
    /\ callback
    /\ pc' = IF pc = "stopped" THEN "woken" ELSE pc

Next ==
    \/ Boot \/ Admission \/ StartTFT \/ EnableExtInt \/ InitVars
    \/ LoopTop \/ Select \/ Recheck \/ Banner \/ Picture
    \/ FlagCheck \/ Activity \/ Standby \/ Notice
    \/ HardReset \/ ResetButton \/ Interrupt

Spec == Init /\ [][Next]_vars

\* ========================================================================
\* The bus routines of the driver (src/tft.py:646-1277)
\*
\* A routine is the sequence of register accesses it makes, in program
\* order; the accesses of the routine that is running are made one at a
\* time.  GPIOA carries the eight data lines, GPIOB the control lines.
\* ========================================================================
\* ptr[i] in the program counts from 0
At(s, i) == s[i + 1]

\* gpioa[0] = v, strb(r, [r6, 0]): the low eight bits reach the data lines
ODR(v) == [ reg |-> "ODR", val |-> v % 256 ]

\* gpiob[1] = m, strh(r5, [r7, 2]): the lines of m go low
BSRRH(m) == [ reg |-> "BSRRH", val |-> m ]

\* gpiob[0] = m, strh(r5, [r7, 0]): the lines of m go high
BSRRL(m) == [ reg |-> "BSRRL", val |-> m ]

\* gpioam[0] = v: 0 makes X1..X8 inputs, 0x5555 outputs
MODER(v) == [ reg |-> "MODER", val |-> v ]

\* data[i] = gpioa[stm.GPIO_IDR]
IDR == [ reg |-> "IDR", val |-> 0 ]

WriteByte_StrobeFirst(v, m) == << BSRRH(m), ODR(v), BSRRL(m) >>

\* the three lines every routine writes a byte with:
\* gpioa[0] = v; gpiob[1] = m; gpiob[0] = m
WriteByte(v, m) == << ODR(v), BSRRH(m), BSRRL(m) >>

\* the three bytes of one pixel
WritePixel(r, g, b) == WriteByte(r, WR) \o WriteByte(g, WR) \o WriteByte(b, WR)

RECURSIVE fillSCR(_, _)
\* while size: data[0], data[1], data[2]; size -= 1
fillSCR(data, size) ==
    IF size = 0 THEN <<>>
    ELSE WritePixel(At(data, 0), At(data, 1), At(data, 2)) \o fillSCR(data, size - 1)

RECURSIVE displaySCR_loop(_, _, _)
\* while size: data[ptr], data[ptr + 1], data[ptr + 2]; ptr += 3; size -= 1
displaySCR_loop(data, ptr, size) ==
    IF size = 0 THEN <<>>
    ELSE WritePixel(At(data, ptr), At(data, ptr + 1), At(data, ptr + 2))
           \o displaySCR_loop(data, ptr + 3, size - 1)

displaySCR(data, size) == displaySCR_loop(data, 0, size)

RECURSIVE displaySCR565_loop(_, _, _)
\* data[ptr] & 0xf8; (data[ptr] << 5 | (data[ptr + 1] >> 3) & 0xfc), where &
\* binds tighter than |; (data[ptr + 1] << 3); ptr += 2
displaySCR565_loop(data, ptr, size) ==
    IF size = 0 THEN <<>>
    ELSE WritePixel(BitAnd(At(data, ptr), 248),
                    BitOr(Shl(At(data, ptr), 5), BitAnd(Shr(At(data, ptr + 1), 3), 252)),
                    Shl(At(data, ptr + 1), 3))
           \o displaySCR565_loop(data, ptr + 2, size - 1)

displaySCR565(data, size) == displaySCR565_loop(data, 0, size)

RECURSIVE fillSCR_AS(_, _)
\* b(loopend); loopend: sub(r1, 1); bpl(loopstart)
fillSCR_AS(r0, r1) ==
    IF r1 - 1 < 0 THEN <<>>
    ELSE WritePixel(At(r0, 0), At(r0, 1), At(r0, 2)) \o fillSCR_AS(r0, r1 - 1)

RECURSIVE displaySCR_AS_loop(_, _, _)
\* ldrb(r2, [r0, 0..2]); add(r0, 3); sub(r1, 1); bpl(loopstart)
displaySCR_AS_loop(data, r0, r1) ==
    IF r1 - 1 < 0 THEN <<>>
    ELSE WritePixel(At(data, r0), At(data, r0 + 1), At(data, r0 + 2))
           \o displaySCR_AS_loop(data, r0 + 3, r1 - 1)

displaySCR_AS(r0, r1) == displaySCR_AS_loop(r0, 0, r1)

RECURSIVE displaySCR565_AS_NoMask_loop(_, _, _)
displaySCR565_AS_NoMask_loop(data, r0, r1) ==
    IF r1 - 1 < 0 THEN <<>>
    ELSE WritePixel(BitAnd(At(data, r0), 248),
                    BitOr(Shl(At(data, r0), 5), Shr(At(data, r0 + 1), 3)),
                    Shl(At(data, r0 + 1), 3))
           \o displaySCR565_AS_NoMask_loop(data, r0 + 2, r1 - 1)

displaySCR565_AS_NoMask(r0, r1) == displaySCR565_AS_NoMask_loop(r0, 0, r1)

RECURSIVE displaySCR565_AS_loop(_, _, _)
\* and_(r2, 0xf8); lsl(r2, 5), lsr(r4, 3), orr(r2, r4), and_(r2, 0xfc);
\* lsl(r2, 3); add(r0, 2); sub(r1, 1); bpl(loopstart)
displaySCR565_AS_loop(data, r0, r1) ==
    IF r1 - 1 < 0 THEN <<>>
    ELSE WritePixel(BitAnd(At(data, r0), 248),
                    BitAnd(BitOr(Shl(At(data, r0), 5), Shr(At(data, r0 + 1), 3)), 252),
                    Shl(At(data, r0 + 1), 3))
           \o displaySCR565_AS_loop(data, r0 + 2, r1 - 1)

displaySCR565_AS(r0, r1) == displaySCR565_AS_loop(r0, 0, r1)

BitmapPixel_KeepFirst(bit, control, bg_buf, bg_ptr) ==
    LET transparency == At(control, 6)
    IN  IF bit # 0
          THEN IF BitAnd(transparency, 8) # 0
                 THEN << 255 - At(bg_buf, bg_ptr), 255 - At(bg_buf, bg_ptr + 1),
                         255 - At(bg_buf, bg_ptr + 2) >>
                 ELSE << At(control, 3), At(control, 4), At(control, 5) >>
          ELSE IF BitAnd(transparency, 2) # 0
                 THEN << At(bg_buf, bg_ptr), At(bg_buf, bg_ptr + 1),
                         At(bg_buf, bg_ptr + 2) >>
               ELSE IF BitAnd(transparency, 1) # 0
                 THEN << Shr(At(bg_buf, bg_ptr), 1), Shr(At(bg_buf, bg_ptr + 1), 1),
                         Shr(At(bg_buf, bg_ptr + 2), 1) >>
               ELSE IF BitAnd(transparency, 4) # 0
                 THEN << 255 - At(bg_buf, bg_ptr), 255 - At(bg_buf, bg_ptr + 1),
                         255 - At(bg_buf, bg_ptr + 2) >>
               ELSE << At(control, 0), At(control, 1), At(control, 2) >>

\* the triplet displaySCR_bitmap writes for one bit of the glyph
\* (control: background, foreground, transparency; bg: the pixel read back)
BitmapPixel(bit, control, bg_buf, bg_ptr) ==
    LET transparency == At(control, 6)
    IN  IF bit # 0
          THEN IF BitAnd(transparency, 8) # 0
                 THEN << 255 - At(bg_buf, bg_ptr), 255 - At(bg_buf, bg_ptr + 1),
                         255 - At(bg_buf, bg_ptr + 2) >>
                 ELSE << At(control, 3), At(control, 4), At(control, 5) >>
          ELSE IF BitAnd(transparency, 1) # 0
                 THEN << Shr(At(bg_buf, bg_ptr), 1), Shr(At(bg_buf, bg_ptr + 1), 1),
                         Shr(At(bg_buf, bg_ptr + 2), 1) >>
               ELSE IF BitAnd(transparency, 2) # 0
                 THEN << At(bg_buf, bg_ptr), At(bg_buf, bg_ptr + 1),
                         At(bg_buf, bg_ptr + 2) >>
               ELSE IF BitAnd(transparency, 4) # 0
                 THEN << 255 - At(bg_buf, bg_ptr), 255 - At(bg_buf, bg_ptr + 1),
                         255 - At(bg_buf, bg_ptr + 2) >>
               ELSE << At(control, 0), At(control, 1), At(control, 2) >>

RECURSIVE displaySCR_bitmap_loop(_, _, _, _, _, _, _)
\* while size: ...; mask >>= 1; if mask == 0: mask = 0x80; bm_ptr += 1;
\* size -= 1; bg_ptr += 3
displaySCR_bitmap_loop(bits, size, control, bg_buf, bm_ptr, bg_ptr, mask) ==
    IF size = 0 THEN <<>>
    ELSE LET px == BitmapPixel(BitAnd(At(bits, bm_ptr), mask), control, bg_buf, bg_ptr)
             exhausted == Shr(mask, 1) = 0
         IN  WritePixel(px[1], px[2], px[3])
               \o displaySCR_bitmap_loop(bits, size - 1, control, bg_buf,
                                         IF exhausted THEN bm_ptr + 1 ELSE bm_ptr,
                                         bg_ptr + 3,
                                         IF exhausted THEN 128 ELSE Shr(mask, 1))

displaySCR_bitmap(bits, size, control, bg_buf) ==
    displaySCR_bitmap_loop(bits, size, control, bg_buf, 0, 0, 128)

\* the high and the low byte of a coordinate: x >> 8, x & 0xff
WriteWord(x) == WriteByte(Shr(x, 8), WR) \o WriteByte(BitAnd(x, 255), WR)

\* 0x2b with x1, x2; 0x2a with y1, y2; 0x2c
setXY_P(x1, y1, x2, y2) ==
    WriteByte(43, BitOr(D_C, WR)) \o WriteWord(x1) \o WriteWord(x2)
      \o WriteByte(42, BitOr(D_C, WR)) \o WriteWord(y1) \o WriteWord(y2)
      \o WriteByte(44, BitOr(D_C, WR))

setXY_L_LowByteFirst(x1, y1, x2, y2) ==
    WriteByte(42, BitOr(D_C, WR))
      \o WriteByte(BitAnd(x1, 255), WR) \o WriteByte(Shr(x1, 8), WR) \o WriteWord(x2)
      \o WriteByte(43, BitOr(D_C, WR)) \o WriteWord(y1) \o WriteWord(y2)
      \o WriteByte(44, BitOr(D_C, WR))

\* 0x2a with x1, x2; 0x2b with y1, y2; 0x2c
setXY_L(x1, y1, x2, y2) ==
    WriteByte(42, BitOr(D_C, WR)) \o WriteWord(x1) \o WriteWord(x2)
      \o WriteByte(43, BitOr(D_C, WR)) \o WriteWord(y1) \o WriteWord(y2)
      \o WriteByte(44, BitOr(D_C, WR))

RECURSIVE WriteRange(_, _, _)
\* for i in range(size): data[i]
WriteRange(data, i, size) ==
    IF i >= size THEN <<>>
    ELSE WriteByte(At(data, i), WR) \o WriteRange(data, i + 1, size)

RECURSIVE WriteLoop_AS(_, _, _)
\* ldrb(r4, [r1, 0]); ...; add(r1, 1); sub(r2, 1); bpl(loopstart)
WriteLoop_AS(data, r1, r2) ==
    IF r2 - 1 < 0 THEN <<>>
    ELSE WriteByte(At(data, r1), WR) \o WriteLoop_AS(data, r1 + 1, r2 - 1)

\* the command byte with C/D and WR low, then size bytes of payload
tft_cmd_data(cmd, data, size) ==
    WriteByte(cmd, BitOr(D_C, WR)) \o WriteRange(data, 0, size)

tft_cmd_data_AS(r0, r1, r2) ==
    WriteByte(r0, BitOr(WR, D_C)) \o WriteLoop_AS(r1, 0, r2)

tft_cmd_AsData(cmd) == WriteByte(cmd, WR)

tft_cmd(cmd) == WriteByte(cmd, BitOr(D_C, WR))

tft_write_data(data, size) == WriteRange(data, 0, size)

tft_write_data_AS_StopsEarly(r0, r1) == WriteLoop_AS(r0, 0, r1 - 1)

tft_write_data_AS(r0, r1) == WriteLoop_AS(r0, 0, r1)

RECURSIVE ReadRange(_, _)
\* for i in range(size): gpiob[1] = RD; delay = 1; data[i] = IDR; gpiob[0] = RD
ReadRange(i, size) ==
    IF i >= size THEN <<>>
    ELSE << BSRRH(RD), IDR, BSRRL(RD) >> \o ReadRange(i + 1, size)

RECURSIVE ReadLoop_AS(_)
\* strh(r5, [r7, 2]); nop(); nop(); ldrb(r4, IDR); strh(r5, [r7, 0]);
\* strb(r4, [r1, 0]); add(r1, 1); sub(r2, 1); bpl(loopstart)
ReadLoop_AS(r2) ==
    IF r2 - 1 < 0 THEN <<>>
    ELSE << BSRRH(RD), IDR, BSRRL(RD) >> \o ReadLoop_AS(r2 - 1)

\* command byte, X1..X8 to input, size reads, X1..X8 back to output
tft_read_cmd_data(cmd, size) ==
    WriteByte(cmd, BitOr(D_C, WR)) \o << MODER(0) >> \o ReadRange(0, size)
      \o << MODER(21845) >>

tft_read_cmd_data_AS_InputFirst(r0, r2) ==
    << MODER(0) >> \o WriteByte(r0, BitOr(WR, D_C)) \o ReadLoop_AS(r2)
      \o << MODER(21845) >>

tft_read_cmd_data_AS(r0, r2) ==
    WriteByte(r0, BitOr(WR, D_C)) \o << MODER(0) >> \o ReadLoop_AS(r2)
      \o << MODER(21845) >>

\* the panel profile LB04301
disp_x_size == 479

disp_y_size == 271

\* self.orientation = orientation; tft_cmd_data_AS(0x36, bytearray([
\* (orientation << 5) | (c_flip << 3) | (h_flip & 1) << 1 | (v_flip) & 1]), 1)
set_tft_mode(v_flip, h_flip, c_flip, orientation) ==
    << BitOr(BitOr(Shl(orientation, 5), Shl(c_flip, 3)),
             BitOr(Shl(BitAnd(h_flip, 1), 1), BitAnd(v_flip, 1))) >>

\* self.setXY as tft_init has bound it
setXY(t, a) ==
    IF t.setXY = "setXY_P" THEN setXY_P(a[1], a[2], a[3], a[4])
    ELSE setXY_L(a[1], a[2], a[3], a[4])

\* if self.orientation == LANDSCAPE: setXY(0, 0, disp_x_size, disp_y_size)
\* else: setXY(0, 0, disp_y_size, disp_x_size)
clrXY(t) ==
    IF t.orientation = LANDSCAPE THEN << 0, 0, disp_x_size, disp_y_size >>
    ELSE << 0, 0, disp_y_size, disp_x_size >>

\* (disp_x_size + 1, disp_y_size + 1) in landscape, swapped otherwise
getScreensize(t) ==
    IF t.orientation = LANDSCAPE THEN << disp_x_size + 1, disp_y_size + 1 >>
    ELSE << disp_y_size + 1, disp_x_size + 1 >>

\* ------------------------------------------------------------------------
\* The drawing primitives (src/tft.py:361-609): each is the sequence of the
\* address windows it sets, with the colour and the number of the pixels it
\* streams into each
\* ------------------------------------------------------------------------
\* setXY(x1, y1, x2, y2) followed by a stream of n pixels of colour data
Window(x1, y1, x2, y2, data, n) ==
    [ x1 |-> x1, y1 |-> y1, x2 |-> x2, y2 |-> y2, data |-> data, n |-> n ]

\* setColor((255, 255, 255)), setBGColor((0, 0, 0)) and
\* setTextStyle(None, None, 0, None, 0) of tft_init
colorvect == << 255, 255, 255 >>

BGcolorvect == << 0, 0, 0 >>

text_color == BGcolorvect \o colorvect \o << 0 >>

\* setXY(x, y, x, y); displaySCR_AS(colorvect, 1)
drawPixel(x, y) == << Window(x, y, x, y, colorvect, 1) >>

drawHLine_KeepsOrigin(x, y, l) ==
    LET l1 == IF l < 0 THEN -l ELSE l
    IN  << Window(x, y, x + l1 - 1, y, colorvect, l1) >>

\* if l < 0: l = -l; x -= l
\* setXY(x, y, x + l - 1, y); fillSCR_AS(colorvect, l)
drawHLine(x, y, l) ==
    LET l1 == IF l < 0 THEN -l ELSE l
        xa == IF l < 0 THEN x - l1 ELSE x
    IN  << Window(xa, y, xa + l1 - 1, y, colorvect, l1) >>

\* if l < 0: l = -l; y -= l
\* setXY(x, y, x, y + l - 1); fillSCR_AS(colorvect, l)
drawVLine(x, y, l) ==
    LET l1 == IF l < 0 THEN -l ELSE l
        ya == IF l < 0 THEN y - l1 ELSE y
    IN  << Window(x, ya, x, ya + l1 - 1, colorvect, l1) >>

RECURSIVE drawLine_rows(_, _, _, _, _, _, _, _)
\* dx < dy: while True: drawPixel(col, row); if row == y2: return;
\* row += ystep; t += dx; if t >= 0: col += xstep; t -= dy
drawLine_rows(col, row, t, dx, dy, xstep, ystep, y2) ==
    IF row = y2 THEN drawPixel(col, row)
    ELSE drawPixel(col, row)
           \o (IF t + dx >= 0
                 THEN drawLine_rows(col + xstep, row + ystep, t + dx - dy,
                                    dx, dy, xstep, ystep, y2)
                 ELSE drawLine_rows(col, row + ystep, t + dx,
                                    dx, dy, xstep, ystep, y2))

RECURSIVE drawLine_cols(_, _, _, _, _, _, _, _)
\* else: while True: drawPixel(col, row); if col == x2: return;
\* col += xstep; t += dy; if t >= 0: row += ystep; t -= dx
drawLine_cols(col, row, t, dx, dy, xstep, ystep, x2) ==
    IF col = x2 THEN drawPixel(col, row)
    ELSE drawPixel(col, row)
           \o (IF t + dy >= 0
                 THEN drawLine_cols(col + xstep, row + ystep, t + dy - dx,
                                    dx, dy, xstep, ystep, x2)
                 ELSE drawLine_cols(col + xstep, row, t + dy,
                                    dx, dy, xstep, ystep, x2))

\* if y1 == y2: drawHLine(x1, y1, x2 - x1 + 1)
\* elif x1 == x2: drawVLine(x1, y1, y2 - y1 + 1)
\* else: dx, xstep = (x2 - x1, 1) if x2 > x1 else (x1 - x2, -1), the same
\* for dy, ystep; t = -(dy >> 1) or -(dx >> 1)
drawLine(x1, y1, x2, y2) ==
    IF y1 = y2 THEN drawHLine(x1, y1, x2 - x1 + 1)
    ELSE IF x1 = x2 THEN drawVLine(x1, y1, y2 - y1 + 1)
    ELSE LET dx == IF x2 > x1 THEN x2 - x1 ELSE x1 - x2
             xstep == IF x2 > x1 THEN 1 ELSE -1
             dy == IF y2 > y1 THEN y2 - y1 ELSE y1 - y2
             ystep == IF y2 > y1 THEN 1 ELSE -1
         IN  IF dx < dy
               THEN drawLine_rows(x1, y1, -Shr(dy, 1), dx, dy, xstep, ystep, y2)
               ELSE drawLine_cols(x1, y1, -Shr(dx, 1), dx, dy, xstep, ystep, x2)

\* if a > b: t = a; a = b; b = t
Lo(a, b) == IF a > b THEN b ELSE a

Hi(a, b) == IF a > b THEN a ELSE b

\* the corners are put in order, then two drawHLine and two drawVLine
drawRectangle(x1, y1, x2, y2) ==
    LET xa == Lo(x1, x2)
        xb == Hi(x1, x2)
        ya == Lo(y1, y2)
        yb == Hi(y1, y2)
    IN  drawHLine(xa, ya, xb - xa + 1) \o drawHLine(xa, yb, xb - xa + 1)
          \o drawVLine(xa, ya, yb - ya + 1) \o drawVLine(xb, ya, yb - ya + 1)

fillRectangle_NoSwapY(x1, y1, x2, y2) ==
    LET xa == Lo(x1, x2)
        xb == Hi(x1, x2)
    IN  << Window(xa, y1, xb, y2, colorvect, (xb - xa + 1) * (y2 - y1 + 1)) >>

fillRectangle(x1, y1, x2, y2) ==
    LET xa == Lo(x1, x2)
        xb == Hi(x1, x2)
        ya == Lo(y1, y2)
        yb == Hi(y1, y2)
    IN  << Window(xa, ya, xb, yb, colorvect, (xb - xa + 1) * (yb - ya + 1)) >>

drawClippedRectangle(x1, y1, x2, y2) ==
    LET xa == Lo(x1, x2)
        xb == Hi(x1, x2)
        ya == Lo(y1, y2)
        yb == Hi(y1, y2)
    IN  IF (xb - xa) > 4 /\ (yb - ya) > 4
          THEN drawPixel(xa + 2, ya + 1) \o drawPixel(xa + 1, ya + 2)
                 \o drawPixel(xb - 2, ya + 1) \o drawPixel(xb - 1, ya + 2)
                 \o drawPixel(xa + 2, yb - 1) \o drawPixel(xa + 1, yb - 2)
                 \o drawPixel(xb - 2, yb - 1) \o drawPixel(xb - 1, yb - 2)
                 \o drawHLine(xa + 3, ya, xb - xa - 5)
                 \o drawHLine(xa + 3, yb, xb - xa - 5)
                 \o drawVLine(xa, ya + 3, yb - ya - 5)
                 \o drawVLine(xb, ya + 3, yb - ya - 5)
          ELSE <<>>

RECURSIVE ClippedRows(_, _, _, _, _, _)
\* for i in range(((y2 - y1) // 2) + 1): the two lines of row i
ClippedRows(xa, ya, xb, yb, i, n) ==
    IF i >= n THEN <<>>
    ELSE (IF i = 0
            THEN drawHLine(xa + 3, ya + i, xb - xa - 5)
                   \o drawHLine(xa + 3, yb - i, xb - xa - 5)
          ELSE IF i = 1
            THEN drawHLine(xa + 2, ya + i, xb - xa - 3)
                   \o drawHLine(xa + 2, yb - i, xb - xa - 3)
          ELSE IF i = 2
            THEN drawHLine(xa + 1, ya + i, xb - xa - 1)
                   \o drawHLine(xa + 1, yb - i, xb - xa - 1)
          ELSE drawHLine(xa, ya + i, xb - xa + 1)
                 \o drawHLine(xa, yb - i, xb - xa + 1))
         \o ClippedRows(xa, ya, xb, yb, i + 1, n)

fillClippedRectangle(x1, y1, x2, y2) ==
    LET xa == Lo(x1, x2)
        xb == Hi(x1, x2)
        ya == Lo(y1, y2)
        yb == Hi(y1, y2)
    IN  IF (xb - xa) > 4 /\ (yb - ya) > 4
          THEN ClippedRows(xa, ya, xb, yb, 0, ((yb - ya) \div 2) + 1)
          ELSE <<>>

\* for x1 in range(-(radius * 2), 1): if x1*x1 + y_square <= r_square: ... break
FirstX(radius, y1) ==
    CHOOSE x1 \in (-(radius * 2)) .. 0 :
        /\ x1 * x1 + y1 * y1 <= radius * radius * 4
        /\ \A x0 \in (-(radius * 2)) .. (x1 - 1) :
             ~(x0 * x0 + y1 * y1 <= radius * radius * 4)

RECURSIVE CircleRows(_, _, _, _)
\* for y1 in range(-(radius * 2), 1): x1i = x1 // 2; y1i = y1 // 2; two lines
CircleRows(x, y, radius, y1) ==
    IF y1 >= 1 THEN <<>>
    ELSE LET x1i == FirstX(radius, y1) \div 2
             y1i == y1 \div 2
         IN  drawHLine(x + x1i, y + y1i, 2 * (-x1i))
               \o drawHLine(x + x1i, y - y1i, 2 * (-x1i))
               \o CircleRows(x, y, radius, y1 + 1)

fillCircle(x, y, radius) == CircleRows(x, y, radius, -(radius * 2))

\* setXY(text_x, text_y, width - text_x - 1, text_y + text_rows - 1);
\* fillSCR_AS(text_color, width * text_rows)
printClrEOL(text_x, text_y, text_width, text_rows) ==
    << Window(text_x, text_y, text_width - text_x - 1, text_y + text_rows - 1,
              text_color, text_width * text_rows) >>

\* ------------------------------------------------------------------------
\* Inputs of the driver
\* ------------------------------------------------------------------------
RECURSIVE SeqsOf(_, _)
\* the sequences of length n over S
SeqsOf(S, n) ==
    IF n = 0 THEN { <<>> }
    ELSE { Append(s, e) : s \in SeqsOf(S, n - 1), e \in S }

RECURSIVE Flatten(_)
\* a buffer of pixels as the bytes it holds
Flatten(ss) == IF ss = <<>> THEN <<>> ELSE Head(ss) \o Flatten(Tail(ss))

RECURSIVE Repeat(_, _)
\* n copies of the bytes s
Repeat(s, n) == IF n = 0 THEN <<>> ELSE s \o Repeat(s, n - 1)

\* command bytes: memory write start 0x2c, display on 0x29; memory read 0x2e
Commands == {44, 41}

ReadCommands == {46}

\* payload bytes and the bytes the panel drives on a read
PayloadBytes == {0, 165}

PanelBytes == {0, 255}

\* colours of a triplet stream
Colors == { << 255, 255, 255 >>, << 1, 2, 3 >> }

\* packed 565 pixels as stored: all bits clear and set, each field alone,
\* the green field across the two bytes, mixed patterns
Pixels565 == { << 0, 0 >>, << 255, 255 >>, << 248, 0 >>, << 7, 224 >>, << 0, 31 >>,
               << 4, 32 >>, << 165, 90 >>, << 90, 165 >> }

\* bytes of a single 565 pixel: each bit alone, none, all, mixed patterns
Bytes565 == {0, 1, 2, 4, 8, 16, 32, 64, 128, 255, 165, 90}

\* the 565 buffers of n pixels: a single pixel has any two of Bytes565
Buffers565(n) ==
    IF n = 1 THEN { << b0, b1 >> : b0 \in Bytes565, b1 \in Bytes565 }
    ELSE { Flatten(px) : px \in SeqsOf(Pixels565, n) }

\* 16 bit coordinates
XSamples == {0, 255, 256, 65535}

YSamples == {0, 479, 4660}

\* glyph bits, colours and transparency modes of the glyph stream
GlyphBits == { << 160 >>, << 64 >> }

Transparencies == 0..15

GlyphControl(t) == << 1, 2, 3, 251, 252, 253, t >>

GlyphBackground == << 16, 33, 66 >>

\* ------------------------------------------------------------------------
\* The driver at work: a routine is entered, makes its accesses, returns
\* ------------------------------------------------------------------------
Idle == [ fn |-> "none", a |-> <<>>, data |-> <<>>, aux |-> <<>> ]

Routine(fn, a, data, aux) == [ fn |-> fn, a |-> a, data |-> data, aux |-> aux ]

\* the state tft.TFT(...) leaves behind for the 4.3 inch panel
DriverInit ==
    /\ TFT_SIZE = 4
    /\ pc = "extint"
    /\ USBSUPPLY = FALSE
    /\ TESTMODE = FALSE
    /\ batval = LOWBAT
    /\ total_cnt = 0
    /\ start = 0
    /\ PIR_flag = FALSE
    /\ files = <<>>
    /\ name = ""
    /\ extint = FALSE
    /\ mytft = TftInit("SSD1963", LcdType(4), Orientation(4))
    /\ shown = <<>>
    /\ idle = 0
    /\ testSeen = FALSE
    /\ BusIdle
    /\ UpperIdle

\* no routine is running and the last one has returned
Callable == prog = <<>> /\ call.fn = "none"

\* a bus routine is called: its accesses are what is left to do
Enter(c, code) ==
    /\ call' = c
    /\ prog' = code
    /\ UNCHANGED << gpioa, gpioam, gpiob, last, sent, rdata, windows >>
    /\ UNCHANGED << slides, upper >>

Run_tft_cmd ==
    /\ Callable
    /\ \E cmd \in Commands :
           Enter(Routine("tft_cmd", << cmd >>, <<>>, <<>>), tft_cmd(cmd))

Run_tft_cmd_data ==
    /\ Callable
    /\ \E cmd \in Commands, data \in SeqsOf(PayloadBytes, MaxBytes), size \in 0..MaxBytes :
           Enter(Routine("tft_cmd_data", << cmd, size >>, data, <<>>),
                 tft_cmd_data(cmd, data, size))

Run_tft_cmd_data_AS ==
    /\ Callable
    /\ \E cmd \in Commands, data \in SeqsOf(PayloadBytes, MaxBytes), size \in 0..MaxBytes :
           Enter(Routine("tft_cmd_data_AS", << cmd, size >>, data, <<>>),
                 tft_cmd_data_AS(cmd, data, size))

Run_tft_write_data ==
    /\ Callable
    /\ \E data \in SeqsOf(PayloadBytes, MaxBytes), size \in 0..MaxBytes :
           Enter(Routine("tft_write_data", << size >>, data, <<>>),
                 tft_write_data(data, size))

Run_tft_write_data_AS ==
    /\ Callable
    /\ \E data \in SeqsOf(PayloadBytes, MaxBytes), size \in 0..MaxBytes :
           Enter(Routine("tft_write_data_AS", << size >>, data, <<>>),
                 tft_write_data_AS(data, size))

Run_tft_read_cmd_data ==
    /\ Callable
    /\ \E cmd \in ReadCommands, size \in 0..MaxBytes :
           Enter(Routine("tft_read_cmd_data", << cmd, size >>, <<>>, <<>>),
                 tft_read_cmd_data(cmd, size))

Run_tft_read_cmd_data_AS ==
    /\ Callable
    /\ \E cmd \in ReadCommands, size \in 0..MaxBytes :
           Enter(Routine("tft_read_cmd_data_AS", << cmd, size >>, <<>>, <<>>),
                 tft_read_cmd_data_AS(cmd, size))

Run_fillSCR ==
    /\ Callable
    /\ \E data \in Colors, size \in 0..MaxPixels :
           Enter(Routine("fillSCR", << size >>, data, <<>>), fillSCR(data, size))

Run_fillSCR_AS ==
    /\ Callable
    /\ \E data \in Colors, size \in 0..MaxPixels :
           Enter(Routine("fillSCR_AS", << size >>, data, <<>>), fillSCR_AS(data, size))

Run_displaySCR ==
    /\ Callable
    /\ \E size \in 0..MaxPixels : \E px \in SeqsOf(Colors, size) :
           Enter(Routine("displaySCR", << size >>, Flatten(px), <<>>),
                 displaySCR(Flatten(px), size))

Run_displaySCR_AS ==
    /\ Callable
    /\ \E size \in 0..MaxPixels : \E px \in SeqsOf(Colors, size) :
           Enter(Routine("displaySCR_AS", << size >>, Flatten(px), <<>>),
                 displaySCR_AS(Flatten(px), size))

Run_displaySCR565 ==
    /\ Callable
    /\ \E size \in 0..MaxPixels : \E data \in Buffers565(size) :
           Enter(Routine("displaySCR565", << size >>, data, <<>>), displaySCR565(data, size))

Run_displaySCR565_AS ==
    /\ Callable
    /\ \E size \in 0..MaxPixels : \E data \in Buffers565(size) :
           Enter(Routine("displaySCR565_AS", << size >>, data, <<>>), displaySCR565_AS(data, size))

\* printChar: the glyph bits, cols * rows, text_color, the pixels read back
\* (a dummy when the transparency is 0)
Run_displaySCR_bitmap ==
    /\ Callable
    /\ \E bits \in GlyphBits, size \in 0..MaxPixels, t \in Transparencies :
           LET bg_buf == IF t = 0 THEN <<>>
                         ELSE Repeat(GlyphBackground, size)
           IN  Enter(Routine("displaySCR_bitmap", << size >>, bits,
                             << GlyphControl(t), bg_buf >>),
                     displaySCR_bitmap(bits, size, GlyphControl(t), bg_buf))

Run_setXY_P ==
    /\ Callable
    /\ \E x1 \in XSamples, x2 \in XSamples, y1 \in YSamples, y2 \in YSamples :
           Enter(Routine("setXY_P", << x1, y1, x2, y2 >>, <<>>, <<>>),
                 setXY_P(x1, y1, x2, y2))

Run_setXY_L ==
    /\ Callable
    /\ \E x1 \in XSamples, x2 \in XSamples, y1 \in YSamples, y2 \in YSamples :
           Enter(Routine("setXY_L", << x1, y1, x2, y2 >>, <<>>, <<>>),
                 setXY_L(x1, y1, x2, y2))

\* tft_init on the constructed object, from its first line to the return
\* of its clrSCR, whose last byte on the data lines is the low byte of
\* setScrollStart(0); the bytes of the initialisation are not listed
Call_tft_init ==
    /\ Callable
    /\ \E orientation \in {LANDSCAPE, PORTRAIT} :
           /\ mytft' = TftInit("SSD1963", LcdType(4), orientation)
           /\ call' = Routine("tft_init", << orientation >>, <<>>, <<>>)
    /\ gpioa' = 0
    /\ last' = "BSRRL"
    /\ UNCHANGED << gpioam, gpiob, prog, sent, rdata, windows >>
    /\ UNCHANGED << TFT_SIZE, pc, USBSUPPLY, TESTMODE, batval, total_cnt, start, PIR_flag,
                    files, name, extint, shown, idle, testSeen >>
    /\ UNCHANGED upper

Run_set_tft_mode ==
    /\ Callable
    /\ \E v_flip \in {0, 1}, h_flip \in {0, 1}, c_flip \in {0, 1},
          orientation \in {LANDSCAPE, PORTRAIT} :
           /\ mytft' = [ mytft EXCEPT !.orientation = orientation ]
           /\ call' = Routine("tft_cmd_data_AS", << 54, 1 >>,
                              set_tft_mode(v_flip, h_flip, c_flip, orientation),
                              << "set_tft_mode" >>)
           /\ prog' = tft_cmd_data_AS(54, call'.data, 1)
    /\ UNCHANGED << gpioa, gpioam, gpiob, last, sent, rdata, windows >>
    /\ UNCHANGED << TFT_SIZE, pc, USBSUPPLY, TESTMODE, batval, total_cnt, start, PIR_flag,
                    files, name, extint, shown, idle, testSeen >>
    /\ UNCHANGED upper

Run_clrXY ==
    /\ Callable
    /\ Enter(Routine(mytft.setXY, clrXY(mytft), <<>>, << "clrXY" >>),
             setXY(mytft, clrXY(mytft)))

\* the level of a control line
Low(line) == BitAnd(gpiob, line) = 0

\* the next access of the running routine is made
Access(r) ==
    /\ prog # <<>>
    /\ prog[1].reg = r
    /\ prog' = Tail(prog)
    /\ last' = r
    /\ UNCHANGED << call, windows >>
    /\ UNCHANGED << slides, upper >>

StoreODR ==
    /\ Access("ODR")
    /\ gpioa' = prog[1].val
    /\ UNCHANGED << gpioam, gpiob, sent, rdata >>

StoreBSRRH ==
    /\ Access("BSRRH")
    /\ gpiob' = BitAnd(gpiob, 65535 - prog[1].val)
    /\ UNCHANGED << gpioa, gpioam, sent, rdata >>

\* the controller latches the data lines on the rising edge of WR, as a
\* command if C/D was low during the pulse
StoreBSRRL ==
    /\ Access("BSRRL")
    /\ gpiob' = BitOr(gpiob, prog[1].val)
    /\ sent' = IF Low(WR) /\ BitAnd(prog[1].val, WR) # 0
                 THEN Append(sent, [ cmd |-> Low(D_C), byte |-> gpioa ])
                 ELSE sent
    /\ UNCHANGED << gpioa, gpioam, rdata >>

StoreMODER ==
    /\ Access("MODER")
    /\ gpioam' = prog[1].val
    /\ UNCHANGED << gpioa, gpiob, sent, rdata >>

\* the byte the panel drives is sampled
LoadIDR ==
    /\ Access("IDR")
    /\ \E v \in PanelBytes : rdata' = Append(rdata, v)
    /\ UNCHANGED << gpioa, gpioam, gpiob, sent >>

\* the value the data lines are left with by the bus traffic of a primitive
LastODR(ws, odr) ==
    IF Len(ws) = 0 THEN odr
    ELSE IF ws[Len(ws)].n > 0 THEN At(ws[Len(ws)].data, 2) % 256
    ELSE 44

\* a drawing primitive runs from its call to its return
Primitive(c, ws) ==
    /\ call' = c
    /\ windows' = ws
    /\ gpioa' = LastODR(ws, gpioa)
    /\ last' = IF Len(ws) = 0 THEN last ELSE "BSRRL"
    /\ UNCHANGED << gpioam, gpiob, prog, sent, rdata >>
    /\ UNCHANGED << slides, upper >>

\* the shape asked for lies within the panel
OnPanel(x, y) == 0 <= x /\ x <= MaxX /\ 0 <= y /\ y <= MaxY

Draw_drawPixel ==
    /\ Callable
    /\ \E x \in 0..MaxX, y \in 0..MaxY :
           Primitive(Routine("drawPixel", << x, y >>, <<>>, <<>>), drawPixel(x, y))

Draw_drawHLine ==
    /\ Callable
    /\ \E x \in 0..MaxX, y \in 0..MaxY, l \in (-(MaxX + 1)) .. (MaxX + 1) :
           /\ (l < 0 => OnPanel(x + l, y))
           /\ (l > 0 => OnPanel(x + l - 1, y))
           /\ Primitive(Routine("drawHLine", << x, y, l >>, <<>>, <<>>), drawHLine(x, y, l))

Draw_drawVLine ==
    /\ Callable
    /\ \E x \in 0..MaxX, y \in 0..MaxY, l \in (-(MaxY + 1)) .. (MaxY + 1) :
           /\ (l < 0 => OnPanel(x, y + l))
           /\ (l > 0 => OnPanel(x, y + l - 1))
           /\ Primitive(Routine("drawVLine", << x, y, l >>, <<>>, <<>>), drawVLine(x, y, l))

Draw_drawLine ==
    /\ Callable
    /\ \E x1 \in 0..MaxX, y1 \in 0..MaxY, x2 \in 0..MaxX, y2 \in 0..MaxY :
           Primitive(Routine("drawLine", << x1, y1, x2, y2 >>, <<>>, <<>>),
                     drawLine(x1, y1, x2, y2))

Draw_drawRectangle ==
    /\ Callable
    /\ \E x1 \in 0..MaxX, y1 \in 0..MaxY, x2 \in 0..MaxX, y2 \in 0..MaxY :
           Primitive(Routine("drawRectangle", << x1, y1, x2, y2 >>, <<>>, <<>>),
                     drawRectangle(x1, y1, x2, y2))

Draw_fillRectangle ==
    /\ Callable
    /\ \E x1 \in 0..MaxX, y1 \in 0..MaxY, x2 \in 0..MaxX, y2 \in 0..MaxY :
           Primitive(Routine("fillRectangle", << x1, y1, x2, y2 >>, <<>>, <<>>),
                     fillRectangle(x1, y1, x2, y2))

Draw_drawClippedRectangle ==
    /\ Callable
    /\ \E x1 \in 0..MaxX, y1 \in 0..MaxY, x2 \in 0..MaxX, y2 \in 0..MaxY :
           Primitive(Routine("drawClippedRectangle", << x1, y1, x2, y2 >>, <<>>, <<>>),
                     drawClippedRectangle(x1, y1, x2, y2))

Draw_fillClippedRectangle ==
    /\ Callable
    /\ \E x1 \in 0..MaxX, y1 \in 0..MaxY, x2 \in 0..MaxX, y2 \in 0..MaxY :
           Primitive(Routine("fillClippedRectangle", << x1, y1, x2, y2 >>, <<>>, <<>>),
                     fillClippedRectangle(x1, y1, x2, y2))

Draw_fillCircle ==
    /\ Callable
    /\ \E radius \in 0..MaxRadius :
         \E x \in radius .. (MaxX - radius), y \in radius .. (MaxY - radius) :
           Primitive(Routine("fillCircle", << x, y, radius >>, <<>>, <<>>),
                     fillCircle(x, y, radius))

\* the cursor is where the print calls before have left it: any column, any
\* line the font fits on
Draw_printClrEOL ==
    /\ Callable
    /\ \E text_rows \in 1..MaxRows :
         \E text_x \in 0..MaxX, text_y \in 0 .. (MaxY + 1 - text_rows) :
           Primitive(Routine("printClrEOL", << text_x, text_y, MaxX + 1, text_rows >>,
                             <<>>, <<>>),
                     printClrEOL(text_x, text_y, MaxX + 1, text_rows))

\* the routine has made its last access
Done == prog = <<>> /\ call.fn # "none"

Return ==
    /\ Done
    /\ call' = Idle
    /\ last' = "none"
    /\ sent' = <<>>
    /\ rdata' = <<>>
    /\ windows' = <<>>
    /\ UNCHANGED << gpioa, gpioam, gpiob, prog >>
    /\ UNCHANGED << slides, upper >>

DriverNext ==
    \/ Run_tft_cmd \/ Run_tft_cmd_data \/ Run_tft_cmd_data_AS
    \/ Run_tft_write_data \/ Run_tft_write_data_AS
    \/ Run_tft_read_cmd_data \/ Run_tft_read_cmd_data_AS
    \/ Run_fillSCR \/ Run_fillSCR_AS \/ Run_displaySCR \/ Run_displaySCR_AS
    \/ Run_displaySCR565 \/ Run_displaySCR565_AS \/ Run_displaySCR_bitmap
    \/ Run_setXY_P \/ Run_setXY_L
    \/ Call_tft_init \/ Run_set_tft_mode \/ Run_clrXY
    \/ StoreODR \/ StoreBSRRH \/ StoreBSRRL \/ StoreMODER \/ LoadIDR
    \/ Draw_drawPixel \/ Draw_drawHLine \/ Draw_drawVLine \/ Draw_drawLine
    \/ Draw_drawRectangle \/ Draw_fillRectangle
    \/ Draw_drawClippedRectangle \/ Draw_fillClippedRectangle
    \/ Draw_fillCircle \/ Draw_printClrEOL
    \/ Return

DriverSpec == DriverInit /\ [][DriverNext]_vars

\* ========================================================================
\* The text renderer (src/tft.py:324-361, 571-640) on a constructed driver
\*
\* An operation on the object runs from its call to its return or to the
\* exception that ends it; ops lists the calls it has made, its own first.
\* ========================================================================
\* the object, the register and the trace at the call of an operation
Here == [ self |-> self, vsp |-> vsp, ops |-> <<>>, raised |-> FALSE ]

\* a call is made with the arguments a
Call(st, op, a) == [ st EXCEPT !.ops = Append(@, [ op |-> op, a |-> a ]) ]

\* an attribute that is not there is read: AttributeError
Raise(st) == [ st EXCEPT !.raised = TRUE ]

\* tft_cmd_data_AS(0x37, [(lline >> 8) & 0xff, lline & 0xff], 2);
\* scroll_start = lline; the controller takes the two bytes as its pointer
setScrollStart(st, lline) ==
    LET hi == BitAnd(Shr(lline, 8), 255)
        lo == BitAnd(lline, 255)
    IN  [ Call(st, "tft_cmd_data_AS", << 55, hi, lo >>)
            EXCEPT !.vsp = hi * 256 + lo, !.self.scroll_start = lline ]

\* tft_cmd_data_AS(0x33, six bytes, 6); scroll_fta, scroll_vsa, scroll_bfa
setScrollArea(st, tfa, vsa, bfa) ==
    [ Call(Call(st, "setScrollArea", << tfa, vsa, bfa >>), "tft_cmd_data_AS",
           << 51, BitAnd(Shr(tfa, 8), 255), BitAnd(tfa, 255),
              BitAnd(Shr(vsa, 8), 255), BitAnd(vsa, 255),
              BitAnd(Shr(bfa, 8), 255), BitAnd(bfa, 255) >>)
        EXCEPT !.self.scroll_vsa = vsa, !.self.has = @ \cup {"scroll_vsa"} ]

\* if font != None: text_font, text_rows; transparency; text_gap
setTextStyle(st, rows, transparency, gap) ==
    [ Call(st, "setTextStyle", << rows, transparency, gap >>)
        EXCEPT !.self.text_rows = rows, !.self.has = @ \cup {"text_font"},
               !.self.transparency = transparency, !.self.text_gap = gap ]

\* clrXY(); fillSCR_AS(BGcolorvect, ...); text_x = text_y = scroll_start = 0;
\* setScrollStart(0)
clrSCR(st) ==
    LET s1 == Call(Call(Call(st, "clrSCR", <<>>),
                        "setXY", << 0, 0, width - 1, height - 1 >>),
                   "fillSCR_AS", << width * height >>)
    IN  setScrollStart([ s1 EXCEPT !.self.text_x = 0, !.self.text_y = 0,
                                   !.self.scroll_start = 0 ], 0)

printNewline_NoModulo(st) ==
    LET s0 == Call(st, "printNewline", << st.self.text_y, st.self.scroll_start >>)
        s1 == [ s0 EXCEPT !.self.text_y = @ + s0.self.text_rows ]
    IN  IF "text_font" \notin st.self.has THEN Raise(s0)
        ELSE IF "scroll_vsa" \notin st.self.has THEN Raise(s1)
        ELSE IF (s1.self.text_y + s1.self.text_rows) > s1.self.scroll_vsa
          THEN setScrollStart([ s1 EXCEPT !.self.text_y = 0 ], s1.self.text_rows)
        ELSE IF s1.self.scroll_start > 0
          THEN setScrollStart(s1, s1.self.scroll_start + s1.self.text_rows)
        ELSE s1

\* text_y += text_rows; if (text_y + text_rows) > scroll_vsa: text_y = 0,
\* setScrollStart(text_rows); elif scroll_start > 0:
\* setScrollStart((scroll_start + text_rows) % scroll_vsa)
printNewline(st) ==
    LET s0 == Call(st, "printNewline", << st.self.text_y, st.self.scroll_start >>)
        s1 == [ s0 EXCEPT !.self.text_y = @ + s0.self.text_rows ]
    IN  IF "text_font" \notin st.self.has THEN Raise(s0)
        ELSE IF "scroll_vsa" \notin st.self.has THEN Raise(s1)
        ELSE IF (s1.self.text_y + s1.self.text_rows) > s1.self.scroll_vsa
          THEN setScrollStart([ s1 EXCEPT !.self.text_y = 0 ], s1.self.text_rows)
        ELSE IF s1.self.scroll_start > 0
          THEN setScrollStart(s1, (s1.self.scroll_start + s1.self.text_rows)
                                     % s1.self.scroll_vsa)
        ELSE s1

\* text_x = 0
printCR(st) == [ Call(st, "printCR", <<>>) EXCEPT !.self.text_x = 0 ]

\* printClrEOL as the calls it makes
ClrEOL(st) ==
    LET w == printClrEOL(st.self.text_x, st.self.text_y, width,
                         st.self.text_rows)[1]
    IN  Call(Call(Call(st, "printClrEOL", <<>>),
                  "setXY", << w.x1, w.y1, w.x2, w.y2 >>),
             "fillSCR_AS", << w.n >>)

\* the glyph text_font.get_ch gives is text_rows high and cols wide; the
\* last argument of displaySCR_bitmap tells the buffer read back (1) from
\* the dummy 0
printChar(st, cols) ==
    LET s0 == Call(st, "printChar", << cols, st.self.text_x >>)
        rows == st.self.text_rows
        wrap == s0.self.text_x + cols > width
        s1 == IF wrap THEN printNewline(printCR(s0)) ELSE s0
        s2 == IF wrap /\ ~s1.raised THEN ClrEOL(s1) ELSE s1
        w == << s2.self.text_x, s2.self.text_y,
                s2.self.text_x + cols - 1, s2.self.text_y + rows - 1 >>
        s3 == IF s2.self.transparency # 0
                THEN Call(Call(s2, "setXY", w),
                          "tft_read_cmd_data_AS", << 46, cols * rows * 3 >>)
                ELSE s2
        s4 == Call(Call(s3, "setXY", w), "displaySCR_bitmap",
                   << cols * rows, s2.self.transparency,
                      IF s2.self.transparency # 0 THEN 1 ELSE 0 >>)
    IN  IF "text_font" \notin st.self.has THEN Raise(Call(st, "printChar", <<>>))
        ELSE IF s2.raised THEN s2
        ELSE [ s4 EXCEPT !.self.text_x = @ + cols + s4.self.text_gap ]

\* setXY(x, y, x + sx - 1, y + sy - 1), then the stream of the mode: 0 as
\* triplets, 1 as 565, 2 as a glyph with bg_buf = 0; any other mode nothing
drawBitmap(st, x, y, sx, sy, mode) ==
    LET s1 == Call(Call(st, "drawBitmap", << x, y, sx, sy, mode >>),
                   "setXY", << x, y, x + sx - 1, y + sy - 1 >>)
    IN  IF mode = 0 THEN Call(s1, "displaySCR_AS", << sx * sy >>)
        ELSE IF mode = 1 THEN Call(s1, "displaySCR565_AS", << sx * sy >>)
        ELSE IF mode = 2
          THEN Call(s1, "displaySCR_bitmap", << sx * sy, st.self.transparency, 0 >>)
        ELSE s1

\* inputs of the text renderer: a glyph width that fits and one that does not,
\* the modes and gaps of a style, spans of one row and more
GlyphCols == {3, width + 1}

TextModes == {0, 2}

TextGaps == {0, 1}

Spans == 1 .. (2 * MaxRows + 1)

BitmapModes == {0, 1, 2, 16, 24}

\* an operation returns or raises: what it leaves behind
Leaves(st) ==
    /\ self' = st.self
    /\ vsp' = st.vsp
    /\ ops' = st.ops
    /\ exc' = st.raised
    /\ UNCHANGED << slides, driver, dec >>

Text_setTextStyle ==
    /\ dec.pc = "idle"
    /\ \E rows \in 1..MaxRows, t \in TextModes, gap \in TextGaps :
        Leaves(setTextStyle(Here, rows, t, gap))

Text_setScrollArea ==
    /\ dec.pc = "idle"
    /\ \E vsa \in Spans : Leaves(setScrollArea(Here, 0, vsa, 0))

Text_clrSCR ==
    /\ dec.pc = "idle"
    /\ Leaves(clrSCR(Here))

Text_printNewline ==
    /\ ("scroll_vsa" \in self.has) \/ (self.text_y < MaxTextY)
    /\ Leaves(printNewline(Here))

Text_printChar ==
    /\ ("scroll_vsa" \in self.has) \/ (self.text_y < MaxTextY)
    /\ \E cols \in GlyphCols : Leaves(printChar(Here, cols))

Text_drawBitmap ==
    /\ dec.pc = "idle"
    /\ \E mode \in BitmapModes : Leaves(drawBitmap(Here, 0, 0, width, 1, mode))

TextNext ==
    \/ Text_setTextStyle \/ Text_setScrollArea \/ Text_clrSCR
    \/ Text_printNewline \/ Text_printChar \/ Text_drawBitmap

TextSpec == DriverInit /\ [][TextNext]_vars

\* ========================================================================
\* The image decoders: displayfile (src/slides.py:27-118)
\*
\* displayfile is followed from the open of the file to its return or to
\* the exception that leaves it, one row of the file at a time; ops lists
\* the calls it makes on the driver object.  A stored row is known by its
\* position in the file, 1 for the row stored first.
\* ========================================================================
\* the positional arguments the driver method takes, self not counted:
\* fillRectangle(self, x1, y1, x2, y2), drawBitmap(self, x, y, sx, sy, data,
\* mode = 0)
Takes(op, n) ==
    IF op = "fillRectangle" THEN n = 4
    ELSE IF op = "drawBitmap" THEN n \in {5, 6}
    ELSE TRUE

\* a call on the driver object: a TypeError when the arguments do not fit
DriverCall(tr, op, a) == Append(tr, [ op |-> op, a |-> a ])

\* what displayfile can be given: a name that is not there, a name without
\* an extension, an extension without a decoder, and the three formats
FileKinds == {"missing", "noext", "other", "raw", "data", "bmp"}

\* bits per pixel of a bitmap header: indexed, direct, not supported
Depths == {1, 2, 4, 8, 16, 24, 32}

\* the width a bitmap header declares: one pixel, the panel width, one more
ImgWidths == {1, width, width + 1}

\* the compression and the colour table size of a bitmap header
Compressions == {0, 1}

TableSizes == {0, 2}

\* rows stored in a file and rows a bitmap header declares
FileRows == 0 .. (height + 1)

\* skip = (height - imgheight) // 2; if skip > 0: ... else: skip = 0
Skip(imgheight) ==
    IF (height - imgheight) \div 2 > 0 THEN (height - imgheight) \div 2
    ELSE 0

\* the bytes read per row: imgwidth // 8, // 4, // 2 or imgwidth for the
\* indexed depths, imgwidth * 2 and imgwidth * 3 for the direct ones, then
\* bsize = (bsize + 3) & 0xfffc
bsize(colors, imgwidth) ==
    BitAnd((IF colors = 1 THEN imgwidth \div 8
            ELSE IF colors = 2 THEN imgwidth \div 4
            ELSE IF colors = 4 THEN imgwidth \div 2
            ELSE IF colors = 8 THEN imgwidth
            ELSE IF colors = 16 THEN imgwidth * 2
            ELSE imgwidth * 3) + 3, 65532)

\* the decoder goes on to its next step
Step(d, tr, r) ==
    /\ dec' = (IF r THEN [ d EXCEPT !.pc = "raised" ] ELSE d)
    /\ ops' = tr
    /\ exc' = r
    /\ UNCHANGED << slides, driver, self, vsp >>

\* open(name, "rb"), the extension, the headers of a bitmap; a missing file
\* is caught and the screen cleared; a name without a dot leaves mode unbound
Decode_open ==
    /\ dec.pc = "idle"
    /\ \E kind \in FileKinds, colors \in Depths, ih \in FileRows, iw \in ImgWidths,
          full \in FileRows, tail \in BOOLEAN, compress \in Compressions,
          ct_size \in TableSizes :
         /\ (kind # "bmp" => colors = 24 /\ iw = width /\ ih = full /\ compress = 0)
         /\ (kind \in {"missing", "noext", "other"} => full = 0 /\ ~tail)
         /\ (ct_size # 0 => kind = "bmp" /\ colors \in {1, 2, 4, 8})
         /\ LET d == [ pc |-> "parsed", kind |-> kind, colors |-> colors,
                       imgheight |-> ih, fits |-> (iw <= width), full |-> full,
                       tail |-> tail, skip |-> 0, row |-> 0, next |-> 0, read |-> 0,
                       imgwidth |-> iw, compress |-> compress, ct_size |-> ct_size,
                       bsize |-> 0 ]
            IN  IF kind = "missing"
                  THEN Step([ d EXCEPT !.pc = "done" ],
                            << [ op |-> "clrSCR", a |-> <<>> ] >>, FALSE)
                ELSE IF kind = "noext" THEN Step(d, <<>>, TRUE)
                ELSE IF kind = "other" \/ (kind = "bmp" /\ ~d.fits)
                  THEN Step([ d EXCEPT !.pc = "done" ],
                            << [ op |-> "backlight", a |-> << 100 >> ] >>, FALSE)
                ELSE Step(d, <<>>, FALSE)

\* the band before the first row: rows 0..skip for the top-down formats,
\* rows height - skip .. height - 1 for a bitmap; then the colour table of
\* an indexed bitmap, ct_size entries of four bytes, read with split_read,
\* which slides.py does not define; the row size of a direct depth
Decode_preclear ==
    /\ dec.pc = "parsed"
    /\ LET skip == Skip(dec.imgheight)
           band == IF dec.kind = "bmp"
                     THEN << 0, height - skip, width - 1, height - 1, 0 >>
                     ELSE << 0, 0, width - 1, skip, 0 >>
           tr == IF skip > 0 THEN DriverCall(ops, "fillRectangle", band) ELSE ops
           d == [ dec EXCEPT !.skip = skip,
                             !.next = IF dec.kind = "bmp" THEN height - skip - 1
                                      ELSE skip,
                             !.pc = IF dec.kind = "bmp" /\ dec.colors \notin {16, 24}
                                      THEN "clear" ELSE "rows",
                             !.bsize = IF dec.kind = "bmp" /\ dec.colors \in {16, 24}
                                         THEN bsize(dec.colors, dec.imgwidth)
                                         ELSE 0 ]
           indexed == dec.kind = "bmp" /\ dec.colors \in {1, 2, 4, 8}
       IN  IF skip > 0 /\ ~Takes("fillRectangle", Len(band)) THEN Step(d, tr, TRUE)
           ELSE IF indexed
             THEN Step([ d EXCEPT !.ct_size = IF dec.ct_size = 0 THEN 2 ^ dec.colors
                                              ELSE dec.ct_size ], tr, TRUE)
           ELSE Step(d, tr, FALSE)

Row_StoredLast(d, tr) ==
    LET n == IF d.read < d.full THEN 2 ELSE IF d.tail /\ d.read = d.full THEN 1 ELSE 0
        at == [ d EXCEPT !.row = d.next ]
        args == << 0, d.next, d.imgwidth, 1, d.full - d.read, d.colors >>
    IN  IF d.kind = "bmp"
          THEN IF d.next < 0 THEN << [ d EXCEPT !.pc = "clear" ], tr, FALSE >>
               ELSE IF n # 2 THEN << [ at EXCEPT !.pc = "clear" ], tr, FALSE >>
               ELSE << [ at EXCEPT !.next = d.next - 1, !.read = d.read + 1 ],
                       DriverCall(tr, "drawBitmap", args),
                       ~Takes("drawBitmap", Len(args)) >>
        ELSE IF d.next >= height THEN << [ d EXCEPT !.pc = "clear" ], tr, FALSE >>
             ELSE IF n = 0 THEN << [ at EXCEPT !.pc = "clear" ], tr, FALSE >>
             ELSE << at, tr, TRUE >>

\* one pass of the row loop: the loop variable takes its next value, a row
\* is read (n = 2 a full row, 1 a short one, 0 the end of the file) and
\* drawn.  A bitmap stops at n != bsize; the top-down formats stop at n = 0
\* and pass a row to tft.TFT_io.swapbytes / swapcolors, which tft.py has not
Row(d, tr) ==
    LET n == IF d.read < d.full THEN 2 ELSE IF d.tail /\ d.read = d.full THEN 1 ELSE 0
        at == [ d EXCEPT !.row = d.next ]
        args == << 0, d.next, d.imgwidth, 1, d.read + 1, d.colors >>
    IN  IF d.kind = "bmp"
          THEN IF d.next < 0 THEN << [ d EXCEPT !.pc = "clear" ], tr, FALSE >>
               ELSE IF n # 2 THEN << [ at EXCEPT !.pc = "clear" ], tr, FALSE >>
               ELSE << [ at EXCEPT !.next = d.next - 1, !.read = d.read + 1 ],
                       DriverCall(tr, "drawBitmap", args),
                       ~Takes("drawBitmap", Len(args)) >>
        ELSE IF d.next >= height THEN << [ d EXCEPT !.pc = "clear" ], tr, FALSE >>
             ELSE IF n = 0 THEN << [ at EXCEPT !.pc = "clear" ], tr, FALSE >>
             ELSE << at, tr, TRUE >>

Decode_row ==
    /\ dec.pc = "rows"
    /\ Step(Row(dec, ops)[1], Row(dec, ops)[2], Row(dec, ops)[3])

\* the clear after the loop, from or up to the last value of the loop
\* variable; then backlight(100)
Decode_clear ==
    /\ dec.pc = "clear"
    /\ LET rest == IF dec.kind = "bmp"
                     THEN << 0, 0, width - 1, dec.row, 0 >>
                     ELSE << 0, dec.row, width - 1, height - 1, 0 >>
       IN  IF Takes("fillRectangle", Len(rest))
             THEN Step([ dec EXCEPT !.pc = "done" ],
                       Append(DriverCall(ops, "fillRectangle", rest),
                              [ op |-> "backlight", a |-> << 100 >> ]), FALSE)
             ELSE Step(dec, DriverCall(ops, "fillRectangle", rest), TRUE)

\* displayfile is left, by its return or by the exception
Decode_return ==
    /\ dec.pc \in {"done", "raised"}
    /\ dec' = NoFile
    /\ ops' = <<>>
    /\ exc' = FALSE
    /\ UNCHANGED << slides, driver, self, vsp >>

DecodeNext ==
    \/ Decode_open \/ Decode_preclear \/ Decode_row \/ Decode_clear \/ Decode_return

DecodeSpec == DriverInit /\ [][DecodeNext]_vars

\* ========================================================================
\* Claims
\* ========================================================================
\* the admission rule as the specification words it
InBand(b) == TOOLOWBAT < b /\ b < LOWBAT

\* positions of main() inside one pass of the Running loop
IterationPcs == {"loop_top", "select", "recheck", "banner", "picture", "flag_check"}

\* C1: at startup, a reading strictly between TOOLOWBAT and LOWBAT with no
\* external power leads to the sleep with the display never initialised; every
\* other combination of reading and power leads on to the display start of
\* the Running branch.
C1_Admission ==
    /\ [][ pc = "admission" =>
             IF InBand(batval) /\ USBSUPPLY = FALSE
               THEN pc' = "stop_boot" /\ mytft' = NoTFT
               ELSE pc' = "tft_new" ]_vars
    /\ [](pc = "stop_boot" => mytft = NoTFT /\ extint = FALSE)

C1_Witness == pc = "stop_boot" /\ batval = LOWBAT - 1 /\ mytft = NoTFT

\* C2 as claimed: a reading below TOOLOWBAT with no external power never
\* passes a battery check, neither at startup nor in the loop.
C2_Original ==
    pc \in {"tft_new", "banner"} => ~(batval < TOOLOWBAT /\ USBSUPPLY = FALSE)

\* C2 as amended: a reading strictly between TOOLOWBAT and LOWBAT with no
\* external power never passes a battery check, at startup or in the loop,
\* and the two low-battery sleeps are entered on such a reading only (a
\* reading at or below TOOLOWBAT does not force the sleep).
C2_Amended ==
    /\ pc \in {"tft_new", "banner"} => ~(InBand(batval) /\ USBSUPPLY = FALSE)
    /\ pc \in {"stop_boot", "stop_bat"} => (InBand(batval) /\ USBSUPPLY = FALSE)

C2_Witness == pc = "stop_bat" /\ batval = TOOLOWBAT + 1 /\ total_cnt > 0

C4_Original ==
    testSeen = FALSE =>
        /\ pc = "activity" => total_cnt <= TOTAL_COUNTER
        /\ total_cnt <= TOTAL_COUNTER + 1

\* C5 as claimed: the CPU is never in its low-power sleep with an activity
\* event pending that nobody has looked at.
C5_Original == ~(pc = "stopped" /\ PIR_flag = TRUE)

\* C6 as claimed: the handler never runs between main's read of the flag and
\* main's clearing of it.
C6_Original == [][ ~(pc \in {"activity", "notice"} /\ Interrupt) ]_vars

IsBanner(e) == e.what = "banner"

\* C8: when the picture of an iteration is about to be shown, the banner has
\* been shown in this iteration if and only if the total counter, not yet
\* incremented, is a multiple of BANNER_COUNTER; the banner comes before the
\* picture and at most once.
C8_BannerCadence ==
    /\ pc = "picture" =>
         /\ Len(shown) = (IF total_cnt % BANNER_COUNTER = 0 THEN 1 ELSE 0)
         /\ \A i \in 1..Len(shown) : IsBanner(shown[i])
    /\ pc = "flag_check" =>
         /\ Len(shown) = (IF (total_cnt - 1) % BANNER_COUNTER = 0 THEN 2 ELSE 1)
         /\ \A i \in 1..Len(shown) : IsBanner(shown[i]) <=> (i < Len(shown))

C8_Witness == pc = "picture" /\ total_cnt = BANNER_COUNTER /\ Len(shown) = 1

\* C9: the battery is read and the admission rule evaluated before anything
\* is drawn in an iteration; when the rule fails the sleep is entered with
\* nothing displayed and the total counter as it was at the top of the loop.
C9_RecheckFirst ==
    /\ [](pc \in {"loop_top", "select", "recheck", "banner", "stop_bat"}
            => shown = <<>>)
    /\ [][ (pc \in {"loop_top", "select", "recheck"} /\ pc' # "boot")
             => (total_cnt' = total_cnt) ]_vars
    /\ [][ (pc = "recheck" /\ pc' # pc) =>
             IF InBand(batval') /\ USBSUPPLY = FALSE
               THEN pc' = "stop_bat" /\ shown' = <<>>
               ELSE pc' = "banner" ]_vars

\* the battery fails in an iteration in which the banner was due
C9_Witness ==
    pc = "stop_bat" /\ total_cnt = BANNER_COUNTER /\ shown = <<>>

\* the listing holds a file the selection loop accepts
HasPicture(fs) == \E i \in 1..Len(fs) : fs[i] # BANNER_NAME

\* a draw that ends the selection loop
SelectDone == Select /\ pc' = "recheck"

\* fair random draws: a draw that can end the loop is not avoided for ever
FairSpec == Spec /\ WF_vars(SelectDone)

\* C10: under fair draws the selection loop of an iteration ends whenever
\* the listing holds a file other than the banner; the name it ends with is
\* in the listing and is not the banner name, and nothing displayfile is
\* called for as a picture is the banner file.
C10_Selection ==
    /\ (pc = "select" /\ HasPicture(files)) ~> (pc = "recheck")
    /\ [](pc \in {"recheck", "banner", "picture"}
            => (name \in Range(files) /\ name # BANNER_NAME))
    /\ [](\A i \in 1..Len(shown) :
            shown[i].what = "picture"
              => (shown[i].file \in Range(files) /\ shown[i].file # BANNER_NAME))

\* a picture is on the screen although the banner file is in the listing
C10_Witness ==
    /\ pc = "flag_check"
    /\ BANNER_NAME \in Range(files)
    /\ shown[Len(shown)].what = "picture"
    /\ shown[Len(shown)].file = PICTURE_NAME

\* the positions of main() in which the CPU is in its low-power sleep
SleepPcs == {"stop_boot", "stop_bat", "stopped"}

\* tft_standby has run on the driver and nothing has touched it since
InStandby(t) == t.led = 0 /\ t.power = FALSE /\ t.pins = "input"

\* C11 as claimed: whenever the CPU is in its low-power sleep, whichever way
\* it got there (admission failure at startup, battery failure in the loop,
\* inactivity, the total cap), the backlight is off, the panel power is off
\* and the signal pins are pulled inputs.
C11_Original == pc \in SleepPcs => InStandby(mytft)

\* C11 as amended: the sleeps entered from the Running loop (battery failure
\* in an iteration, inactivity, the total cap) are entered by a step that
\* runs tft_standby, so that the backlight is off, the panel power is off and
\* the signal pins are pulled inputs while the CPU sleeps; the sleep entered
\* on admission failure at startup comes before the driver exists: backlight
\* and panel power have never been switched on and no pin is configured.
C11_Amended ==
    /\ [](pc \in {"stop_bat", "stopped"} => InStandby(mytft))
    /\ [](pc = "stop_boot" => mytft = NoTFT)
    /\ [][ (pc' \in {"stop_bat", "stopped"} /\ pc' # pc /\ pc # "woken")
             => (pc \in {"recheck", "standby"} /\ mytft' = TftStandby(mytft)) ]_vars

\* the total cap has sent the board to sleep with the display shut down
C11_Witness ==
    pc = "stopped" /\ total_cnt > TOTAL_COUNTER /\ InStandby(mytft) /\ mytft.inited

\* positions of main() from the construction of the driver to the loop
RunningPcs == {"tft_new", "extint", "init_vars", "loop_top", "select", "recheck",
               "banner", "picture", "flag_check", "activity", "standby", "notice"}

\* C12: no step leads from a sleep into the Running branch.  The sleep on
\* inactivity or on the total cap is left by the interrupt only, and the
\* woken CPU does nothing but the hard reset, which starts main() again at
\* its first line; the low-battery sleeps are left by a reset only, an
\* interrupt leaving the CPU in them.  After a reset the loop is reached
\* through the admission check and the initialisation only, which set the
\* total counter to 0 and the inactivity counter to COUNTER.
C12_NoResume ==
    /\ [][ (pc = "stopped") => (pc' \in {"stopped", "woken"}) ]_vars
    /\ [][ (pc = "woken") =>
             (pc' = "boot" /\ total_cnt' = 0 /\ extint' = FALSE /\ mytft' = NoTFT) ]_vars
    /\ [][ (pc \in {"stop_boot", "stop_bat"}) => (pc' \in {pc, "boot"}) ]_vars
    /\ [][ (pc \in {"stop_boot", "stop_bat"} /\ Interrupt) => (pc' = pc) ]_vars
    /\ [][ (pc = "boot") => (pc' \in {"boot", "admission"}) ]_vars
    /\ [][ (pc \notin RunningPcs /\ pc' \in RunningPcs)
             => (pc = "admission" /\ pc' = "tft_new") ]_vars
    /\ [][ (pc = "init_vars" /\ pc' # pc)
             => (pc' = "loop_top" /\ total_cnt' = 0 /\ start' = COUNTER) ]_vars
    /\ [][ (pc' = "loop_top" /\ pc \notin IterationPcs \cup {"activity", "notice"})
             => (pc = "init_vars") ]_vars

\* the interrupt has woken the CPU from the inactivity sleep: the hard reset
\* is the only thing left to do
C12_Witness == pc = "woken" /\ PIR_flag = TRUE /\ total_cnt > 0

\* ------------------------------------------------------------------------
\* Claims about the bus routines and the drawing primitives (DriverSpec)
\* ------------------------------------------------------------------------
\* the level of a control line after the step
LowNext(line) == BitAnd(gpiob', line) = 0

\* an edge of a control line in the step
Falls(line) == ~Low(line) /\ LowNext(line)

Rises(line) == Low(line) /\ ~LowNext(line)

ReadFns == {"tft_read_cmd_data", "tft_read_cmd_data_AS"}

WindowFns == {"setXY_P", "setXY_L"}

CommandFns == {"tft_cmd", "tft_cmd_data", "tft_cmd_data_AS"}

StreamFns == {"fillSCR", "fillSCR_AS", "displaySCR", "displaySCR_AS",
              "displaySCR565", "displaySCR565_AS", "displaySCR_bitmap"}

BusFns == ReadFns \cup WindowFns \cup CommandFns \cup StreamFns
            \cup {"tft_write_data", "tft_write_data_AS"}

\* the number of bytes a call asks the routine to write
BytesOf(c) ==
    IF c.fn = "tft_cmd" \/ c.fn \in ReadFns THEN 1
    ELSE IF c.fn \in CommandFns THEN 1 + c.a[2]
    ELSE IF c.fn \in WindowFns THEN 11
    ELSE IF c.fn \in StreamFns THEN 3 * c.a[1]
    ELSE c.a[1]

\* C13: every byte a bus routine writes (command, payload, pixel fill,
\* triplet stream, 565 stream, glyph stream, window setup) is placed on the
\* data lines first; the next access drives WR low, the one after drives it
\* high, and the data lines are the same at both edges.  WR falls only right
\* after a byte has been placed, no byte is placed while one waits for its
\* pulse, and a routine returns with WR high, no byte waiting, and as many
\* pulses made as it was asked to write bytes.
C13_WriteCycle ==
    /\ [][ (Falls(WR)) => (last = "ODR" /\ gpioa' = gpioa) ]_vars
    /\ [][ (last = "ODR") => (Falls(WR)) ]_vars
    /\ [][ (Low(WR)) => (Rises(WR) /\ gpioa' = gpioa) ]_vars
    /\ [][ (StoreODR) => (~Low(WR) /\ last # "ODR") ]_vars
    /\ [](Low(WR) => call.fn \in BusFns)
    /\ []((Done /\ call.fn \in BusFns)
            => (~Low(WR) /\ last # "ODR" /\ Len(sent) = BytesOf(call)))

\* two pixels have been filled: six pulses
C13_Witness ==
    Done /\ call.fn = "fillSCR_AS" /\ call.a = << 2 >> /\ Len(sent) = 6

\* the positions of the command bytes among the bytes a routine writes
CommandAt(c) ==
    IF c.fn \in WindowFns THEN {1, 6, 11}
    ELSE IF c.fn \in CommandFns \cup ReadFns THEN {1}
    ELSE {}

\* the byte that is being written, or is the next to be, is a command byte
IsCommand == (Len(sent) + 1) \in CommandAt(call)

\* C14 as claimed: C/D is low before WR falls for a command byte, is low
\* for command bytes only, and is high during the pulse of every other byte.
C14_Original ==
    /\ [][ (Falls(WR) /\ IsCommand) => (Low(D_C)) ]_vars
    /\ [](Low(D_C) => IsCommand)
    /\ []((Low(WR) /\ ~IsCommand) => ~Low(D_C))

\* C14 as amended: C/D is driven low by the very register write that drives
\* WR low for a command byte, and high again by the write that drives WR
\* high, so that it is high before the pulse of a command byte falls and low
\* exactly while that pulse lasts; it is high during the pulse of every
\* payload or pixel byte, and the controller takes the command bytes, and
\* no others, with C/D low.
C14_Amended ==
    /\ [][ (Falls(WR) /\ IsCommand) => (~Low(D_C) /\ LowNext(D_C)) ]_vars
    /\ [][ (Low(D_C)) => (Rises(WR) /\ ~LowNext(D_C)) ]_vars
    /\ [](Low(D_C) <=> (Low(WR) /\ IsCommand))
    /\ [](\A i \in 1..Len(sent) : sent[i].cmd <=> (i \in CommandAt(call)))

\* the second command of a window setup is being strobed
C14_Witness ==
    call.fn = "setXY_P" /\ Len(sent) = 5 /\ Low(D_C) /\ Low(WR) /\ gpioa = 42

Word(i) == sent[i].byte * 256 + sent[i + 1].byte

\* C16: a window setup is eleven bytes: in portrait 0x2B, x1 and x2 high
\* byte first, 0x2A, y1 and y2 high byte first, 0x2C; in landscape the same
\* with 0x2A before x and 0x2B before y; the four 16 bit values read from
\* the bytes after the two commands are the arguments.
C16_WindowEncoding ==
    (Done /\ call.fn \in WindowFns) =>
        /\ Len(sent) = 11
        /\ \A i \in 1..Len(sent) : sent[i].cmd <=> (i \in {1, 6, 11})
        /\ sent[1].byte = (IF call.fn = "setXY_P" THEN 43 ELSE 42)
        /\ sent[6].byte = (IF call.fn = "setXY_P" THEN 42 ELSE 43)
        /\ sent[11].byte = 44
        /\ << Word(2), Word(7), Word(4), Word(9) >> = call.a

\* a window in portrait whose four values differ in both bytes
C16_Witness ==
    Done /\ call.fn = "setXY_P" /\ call.a = << 256, 479, 65535, 4660 >>

\* the window is ordered and on the panel
WindowOK(w) ==
    /\ 0 <= w.x1 /\ w.x1 <= w.x2 /\ w.x2 <= MaxX
    /\ 0 <= w.y1 /\ w.y1 <= w.y2 /\ w.y2 <= MaxY

\* C17 as claimed: every window a primitive sets for a shape within the
\* panel has x1 <= x2 and y1 <= y2 and lies within the panel.
C17_Original == \A i \in 1..Len(windows) : WindowOK(windows[i])

\* the pixels the controller writes for a window and n streamed pixels: it
\* fills the window row by row and starts again at its first pixel when the
\* window is full
PixelsOf(w) ==
    LET wd == w.x2 - w.x1 + 1
        ht == w.y2 - w.y1 + 1
        k  == IF w.n < wd * ht THEN w.n ELSE wd * ht
    IN  IF w.n <= 0 \/ wd <= 0 \/ ht <= 0 THEN {}
        ELSE { << w.x1 + (j % wd), w.y1 + (j \div wd) >> : j \in 0 .. (k - 1) }

PixelSet(ws) == UNION { PixelsOf(ws[i]) : i \in 1..Len(ws) }

RectangleFns == {"drawRectangle", "fillRectangle", "drawClippedRectangle",
                 "fillClippedRectangle"}

\* the windows of a rectangle routine
Rectangle(fn, x1, y1, x2, y2) ==
    IF fn = "drawRectangle" THEN drawRectangle(x1, y1, x2, y2)
    ELSE IF fn = "fillRectangle" THEN fillRectangle(x1, y1, x2, y2)
    ELSE IF fn = "drawClippedRectangle" THEN drawClippedRectangle(x1, y1, x2, y2)
    ELSE fillClippedRectangle(x1, y1, x2, y2)

\* C18: each of the four rectangle routines, called with the corners in any
\* order, writes the pixels it writes when called with x1 <= x2, y1 <= y2.
C18_CornerOrder ==
    call.fn \in RectangleFns =>
        PixelSet(windows) =
            PixelSet(Rectangle(call.fn, Lo(call.a[1], call.a[3]), Lo(call.a[2], call.a[4]),
                               Hi(call.a[1], call.a[3]), Hi(call.a[2], call.a[4])))

\* a frame drawn from its lower right to its upper left corner
C18_Witness ==
    /\ call.fn = "drawRectangle" /\ call.a = << 5, 4, 1, 2 >>
    /\ << 1, 2 >> \in PixelSet(windows) /\ << 5, 4 >> \in PixelSet(windows)

\* C19: a line of negative length L is drawn, not refused: drawHLine(x, y, L)
\* writes the pixels of drawHLine(x + L, y, -L), the columns x + L .. x - 1 of
\* row y, and drawVLine(x, y, L) those of drawVLine(x, y + L, -L).
C19_NegativeLength ==
    /\ (call.fn = "drawHLine" /\ call.a[3] < 0) =>
         /\ Len(windows) = 1
         /\ PixelSet(windows) =
              PixelSet(drawHLine(call.a[1] + call.a[3], call.a[2], -call.a[3]))
         /\ PixelSet(windows) =
              { << i, call.a[2] >> : i \in (call.a[1] + call.a[3]) .. (call.a[1] - 1) }
    /\ (call.fn = "drawVLine" /\ call.a[3] < 0) =>
         /\ Len(windows) = 1
         /\ PixelSet(windows) =
              PixelSet(drawVLine(call.a[1], call.a[2] + call.a[3], -call.a[3]))
         /\ PixelSet(windows) =
              { << call.a[1], j >> : j \in (call.a[2] + call.a[3]) .. (call.a[2] - 1) }

\* three pixels to the left of column 5
C19_Witness ==
    /\ call.fn = "drawHLine" /\ call.a = << 5, 2, -3 >>
    /\ PixelSet(windows) = { << 2, 2 >>, << 3, 2 >>, << 4, 2 >> }

\* C20: a 565 stream of n pixels is 3n bytes, none of them a command; the
\* pixel stored as (b0, b1) goes out as b0 & 0xF8, ((b0 << 5) | (b1 >> 3)) &
\* 0xFC and (b1 << 3) & 0xFF, which are the upper 5, the middle 6 and the
\* lower 5 bits of b0 * 256 + b1, each moved to the top of its byte.
C20_Expand565 ==
    (Done /\ call.fn \in {"displaySCR565", "displaySCR565_AS"}) =>
        /\ Len(sent) = 3 * call.a[1]
        /\ \A i \in 1..Len(sent) : ~sent[i].cmd
        /\ \A i \in 0 .. (call.a[1] - 1) :
             LET b0 == At(call.data, 2 * i)
                 b1 == At(call.data, 2 * i + 1)
                 v  == b0 * 256 + b1
             IN  /\ sent[3 * i + 1].byte = BitAnd(b0, 248)
                 /\ sent[3 * i + 2].byte = BitAnd(BitOr(Shl(b0, 5), Shr(b1, 3)), 252)
                 /\ sent[3 * i + 3].byte = BitAnd(Shl(b1, 3), 255)
                 /\ sent[3 * i + 1].byte = (v \div 2048) * 8
                 /\ sent[3 * i + 2].byte = ((v \div 32) % 64) * 4
                 /\ sent[3 * i + 3].byte = (v % 32) * 8

\* two pixels with bits set in every field have gone out
C20_Witness ==
    /\ Done /\ call.fn = "displaySCR565"
    /\ call.data = << 165, 90, 7, 224 >> /\ Len(sent) = 6

\* ------------------------------------------------------------------------
\* Glyph compositing
\* ------------------------------------------------------------------------
\* a glyph stream has made its last access
GlyphDone == call.fn = "displaySCR_bitmap" /\ prog = <<>>

\* bit i of the glyph, counted from the most significant bit of byte 0
GlyphBit(i) == (At(call.data, i \div 8) \div (2 ^ (7 - (i % 8)))) % 2

\* the mode bits of the stream
GlyphMode == At(call.aux[1], 6)

\* channel k of the sample read back for pixel i
GlyphSample(i, k) == At(call.aux[2], 3 * i + k)

\* the background policy the mode bits select, by precedence
Policy(t) ==
    IF (t \div 1) % 2 = 1 THEN "dim"
    ELSE IF (t \div 2) % 2 = 1 THEN "keep"
    ELSE IF (t \div 4) % 2 = 1 THEN "invert"
    ELSE "opaque"

\* what a background policy makes of sample s, with c the background colour
Composite(policy, s, c) ==
    IF policy = "dim" THEN s \div 2
    ELSE IF policy = "keep" THEN s
    ELSE IF policy = "invert" THEN 255 - s
    ELSE c

\* the byte latched for channel k of pixel i
GlyphByte(i, k) == sent[3 * i + k + 1].byte

\* C21 as stated: with the invert-foreground-as-background bit set the other
\* mode bits have no effect (every pixel is what mode 8 alone gives: the
\* inverted sample for a glyph bit, the opaque background colour otherwise);
\* with it clear a glyph bit gives the foreground colour and a background
\* pixel follows the one policy chosen by dim, keep, invert, opaque
C21_Original ==
    GlyphDone =>
        \A i \in 0 .. (call.a[1] - 1) : \A k \in 0..2 :
            GlyphByte(i, k) =
                IF (GlyphMode \div 8) % 2 = 1
                  THEN IF GlyphBit(i) = 1 THEN 255 - GlyphSample(i, k)
                       ELSE At(call.aux[1], k)
                ELSE IF GlyphBit(i) = 1 THEN At(call.aux[1], 3 + k)
                ELSE Composite(Policy(GlyphMode),
                               IF GlyphMode = 0 THEN 0 ELSE GlyphSample(i, k),
                               At(call.aux[1], k))

\* C21 amended: the invert-foreground-as-background bit decides the pixels
\* of the glyph bits only (inverted sample instead of the foreground colour);
\* every background pixel follows the one policy chosen in the order dim,
\* keep, invert, opaque, for every combination of the mode bits, that bit
\* included
C21_Amended ==
    GlyphDone =>
        \A i \in 0 .. (call.a[1] - 1) : \A k \in 0..2 :
            GlyphByte(i, k) =
                IF GlyphBit(i) = 1
                  THEN IF (GlyphMode \div 8) % 2 = 1 THEN 255 - GlyphSample(i, k)
                       ELSE At(call.aux[1], 3 + k)
                ELSE Composite(Policy(GlyphMode),
                               IF GlyphMode = 0 THEN 0 ELSE GlyphSample(i, k),
                               At(call.aux[1], k))

\* a glyph of a set and a clear bit was streamed with several mode bits set,
\* the invert-foreground bit among them
C21_Witness ==
    /\ GlyphDone
    /\ call.a[1] >= 2
    /\ GlyphMode = 11
    /\ GlyphBit(0) # GlyphBit(1)
    /\ Len(sent) = 3 * call.a[1]

\* ------------------------------------------------------------------------
\* Text renderer
\* ------------------------------------------------------------------------
\* the operation that has run last, by the entry it made in ops
LastOp == IF ops = <<>> THEN "none" ELSE ops[1].op

\* C22: a glyph stream with a non-opaque mode comes right after the window
\* is set, a read transaction (0x2e) of three bytes per pixel and the same
\* window set before that; with the opaque mode the operation makes no read
\* transaction
C22_Original ==
    \A i \in 1..Len(ops) :
        (ops[i].op = "displaySCR_bitmap") =>
            IF ops[i].a[2] # 0
              THEN /\ i >= 4
                   /\ ops[i - 1].op = "setXY"
                   /\ ops[i - 2].op = "tft_read_cmd_data_AS"
                   /\ ops[i - 2].a = << 46, 3 * ops[i].a[1] >>
                   /\ ops[i - 3].op = "setXY"
                   /\ ops[i - 3].a = ops[i - 1].a
              ELSE \A j \in 1..Len(ops) : ops[j].op # "tft_read_cmd_data_AS"

\* printChar has looked up a glyph: its width and the column it was called at
GlyphPrinted == LastOp = "printChar" /\ Len(ops[1].a) = 2

\* the glyph does not fit in the line it was called at
MustWrap == ops[1].a[2] + ops[1].a[1] > width

\* the position in ops of the first call of op, 0 if there is none
FirstCall(op) ==
    IF \E i \in 1..Len(ops) : ops[i].op = op
      THEN CHOOSE i \in 1..Len(ops) :
               ops[i].op = op /\ \A j \in 1..(i - 1) : ops[j].op # op
      ELSE 0

\* C23: printChar makes the calls printCR, printNewline, printClrEOL, in
\* that order and before the glyph is streamed, exactly when the glyph does
\* not fit; the glyph is streamed; a glyph not wider than the panel has its
\* window within 0 .. width - 1; text_x ends at the window's left edge plus
\* the glyph width plus the gap
C23_Original ==
    GlyphPrinted =>
        /\ ~exc
        /\ ops[Len(ops)].op = "displaySCR_bitmap"
        /\ ops[Len(ops) - 1].op = "setXY"
        /\ IF MustWrap
             THEN /\ FirstCall("printCR") = 2
                  /\ FirstCall("printNewline") = 3
                  /\ FirstCall("printClrEOL") > 3
                  /\ FirstCall("printClrEOL") < FirstCall("displaySCR_bitmap")
                  /\ FirstCall("printClrEOL") < Len(ops) - 1
             ELSE /\ FirstCall("printCR") = 0
                  /\ FirstCall("printNewline") = 0
                  /\ FirstCall("printClrEOL") = 0
        /\ (ops[1].a[1] <= width =>
               /\ 0 <= ops[Len(ops) - 1].a[1]
               /\ ops[Len(ops) - 1].a[3] <= width - 1)
        /\ self.text_x = ops[Len(ops) - 1].a[1] + ops[1].a[1] + self.text_gap

\* C24: printNewline called at text_y = y0 with scroll_start = s0 returns
\* with text_y = 0 and the register set to the row height if y0 plus two
\* row heights exceeds the span, else with text_y = y0 + row height and the
\* register set to (s0 + row height) mod span if s0 > 0, else with the
\* register not written; also right after tft_init
C24_Original ==
    (LastOp = "printNewline") =>
        /\ ~exc
        /\ LET y0 == ops[1].a[1]
               s0 == ops[1].a[2]
               rows == self.text_rows
               span == self.scroll_vsa
           IN  IF y0 + rows + rows > span
                 THEN /\ self.text_y = 0
                      /\ Len(ops) = 2 /\ ops[2].a[1] = 55
                      /\ vsp = rows
               ELSE IF s0 > 0
                 THEN /\ self.text_y = y0 + rows
                      /\ Len(ops) = 2 /\ ops[2].a[1] = 55
                      /\ vsp = (s0 + rows) % span
               ELSE /\ self.text_y = y0 + rows
                    /\ Len(ops) = 1
                    /\ vsp = s0

\* the cursor and the scroll window agree
Synchronised(o, v) ==
    /\ o.scroll_start = v
    /\ (o.scroll_start > 0 =>
           /\ {"text_font", "scroll_vsa"} \subseteq o.has
           /\ o.scroll_start = (o.text_y + o.text_rows) % o.scroll_vsa)

\* clrSCR, printChar or printNewline runs
CursorStep == ops' # ops /\ ops' # <<>> /\ ops'[1].op \in {"clrSCR", "printChar", "printNewline"}

\* C25 as stated: clrSCR, printChar and printNewline keep scroll_start equal
\* to the register and, once it is above 0, to (text_y + row height) mod
\* span, for every span
C25_Original ==
    [][ (CursorStep /\ Synchronised(self, vsp)) => (Synchronised(self', vsp')) ]_vars

\* C25 amended: scroll_start equals the register after every operation; for
\* a span larger than one row height clrSCR, printChar and printNewline keep
\* it, once above 0, equal to (text_y + row height) mod span
C25_Amended ==
    [][ /\ self'.scroll_start = vsp'
        /\ ((CursorStep /\ Synchronised(self, vsp)
               /\ ({"text_font", "scroll_vsa"} \subseteq self.has
                      => self.scroll_vsa > self.text_rows))
             => (Synchronised(self', vsp'))) ]_vars

\* a newline has wrapped to the top of a span that is not a multiple of the
\* row height, with the scroll window moved before
C25_Witness ==
    /\ LastOp = "printNewline"
    /\ ~exc
    /\ ops[1].a[2] > 0
    /\ self.text_y = 0
    /\ self.scroll_start = self.text_rows
    /\ self.scroll_vsa > self.text_rows
    /\ self.scroll_vsa % self.text_rows # 0

\* ------------------------------------------------------------------------
\* Aborted initialisation
\* ------------------------------------------------------------------------
\* C26: when tft_init has returned without initialising the panel, the panel
\* power is off and neither the PLL enable nor the software reset has been
\* applied to the controller
C26_Original ==
    (mytft.pins # "reset" /\ ~mytft.inited) => (~mytft.power /\ ~mytft.pll)

\* C27: the slideshow does not crash on a driver whose initialisation was
\* aborted: either the construction succeeds or no call is made on it
C27_Original == (~mytft.inited) => (pc # "crashed")

\* ------------------------------------------------------------------------
\* Image decoders
\* ------------------------------------------------------------------------
\* a decode that has a row loop: the top-down formats and a bitmap of a
\* direct depth that is not wider than the panel
RowDecode ==
    \/ dec.kind \in {"raw", "data"}
    \/ dec.kind = "bmp" /\ dec.fits /\ dec.colors \in {16, 24}

\* the row draw calls made so far, in the order they were made
DrawCalls == SelectSeq(ops, LAMBDA o : o.op = "drawBitmap")

\* the panel rows that got image data
DrawnRows == { DrawCalls[i].a[2] : i \in 1..Len(DrawCalls) }

\* the panel rows of the rectangles the driver has filled
ClearedRows ==
    UNION { IF ops[i].a[2] <= ops[i].a[4] THEN ops[i].a[2] .. ops[i].a[4]
            ELSE ops[i].a[4] .. ops[i].a[2] :
            i \in { k \in 1..Len(ops) : /\ ops[k].op = "fillRectangle"
                                        /\ Takes("fillRectangle", Len(ops[k].a)) } }

\* the row read next is a short one, and there is a panel row left for it
ShortRead ==
    /\ dec.pc = "rows"
    /\ dec.tail /\ dec.read = dec.full
    /\ IF dec.kind = "bmp" THEN dec.next >= 0 ELSE dec.next < height

\* C28: a short row read ends the row loop with no draw call and no
\* exception; the clear after the loop, reached by a short read or by the
\* last panel row, raises no exception and leaves every panel row either
\* drawn or cleared, none both
C28_Original ==
    /\ [][ (RowDecode /\ ShortRead) =>
             (~exc' /\ ops' = ops /\ dec'.pc = "clear") ]_vars
    /\ [][ (RowDecode /\ dec.pc = "clear") =>
             (/\ ~exc'
              /\ DrawnRows' \cap ClearedRows' = {}
              /\ DrawnRows' \cup ClearedRows' = 0 .. (height - 1)) ]_vars

\* C29: for an image shorter than the panel the rows left free on the two
\* sides of the image differ by at most one, and when the loop starts the
\* driver has filled the band before the first row: rows 0 .. skip - 1 for
\* the top-down formats, rows height - skip .. height - 1 for a bitmap
C29_Original ==
    (RowDecode /\ dec.imgheight < height /\ dec.pc \in {"rows", "clear", "done", "raised"}) =>
        LET before == dec.skip
            after == height - dec.imgheight - dec.skip
        IN  /\ before - after \in {-1, 0, 1}
            /\ IF dec.kind = "bmp"
                 THEN (height - before) .. (height - 1) \subseteq ClearedRows
                 ELSE 0 .. (before - 1) \subseteq ClearedRows
            /\ (DrawCalls # <<>> => ops[1].op = "fillRectangle" \/ before = 0)

Supported == dec.kind = "bmp" /\ dec.fits /\ dec.colors \in {1, 2, 4, 8, 16, 24}

\* the bytes of a stored row of w pixels of d bits: 4 * ceil(w * d / 32)
StoredRow(w, d) == 4 * ((w * d + 31) \div 32)

\* C31: for every bitmap of a supported depth that fits the panel the row
\* size of the decoder is the size of a stored row, 4 * ceil(w * d / 32)
C31_Original ==
    (Supported /\ dec.pc # "idle") =>
        (bsize(dec.colors, dec.imgwidth) = StoredRow(dec.imgwidth, dec.colors))

\* a bitmap the decoder is not to decode: a depth it has no branch for, a
\* compressed one, one wider than the panel
Unsupported ==
    /\ dec.kind = "bmp"
    /\ dec.colors \notin {1, 2, 4, 8, 16, 24} \/ dec.compress # 0 \/ ~dec.fits

\* C32: displayfile leaves an unsupported bitmap with an error its caller
\* gets, and has made no row draw call for it
C32_Original ==
    (Unsupported /\ dec.pc \in {"done", "raised"}) => (exc /\ DrawCalls = <<>>)

\* ------------------------------------------------------------------------
\* Missing files
\* ------------------------------------------------------------------------
\* the last call of displayfile
LastShown == shown[Len(shown)]

TopDownRow ==
    /\ dec.kind \in {"raw", "data"}
    /\ dec.pc = "rows"
    /\ dec.next < height
    /\ dec.read < dec.full

\* C34: each full row a top-down decoder reads is swapped and handed to the
\* driver in one draw call of the panel width at the next panel row, as 565
\* data for a .raw file and as triplets for a .data file, and the driver
\* takes the call
C34_Original ==
    [][ TopDownRow =>
          (/\ ~exc'
           /\ ops' = Append(ops, [ op |-> "drawBitmap",
                                   a |-> << 0, dec.next, width, 1, dec.read + 1,
                                            IF dec.kind = "raw" THEN 16 ELSE 24 >> ])
           /\ Takes("drawBitmap", Len(ops'[Len(ops')].a))
           /\ dec'.next = dec.next + 1) ]_vars

\* an indexed bitmap that fits the panel and fills it, header just parsed
IndexedParsed ==
    /\ dec.kind = "bmp" /\ dec.fits /\ dec.colors \in {1, 2, 4, 8}
    /\ dec.pc = "parsed"
    /\ Skip(dec.imgheight) = 0

\* C35: for an indexed bitmap the colour table is read, 2^depth entries or
\* as many as the header says, and the decoder goes on to draw its rows
C35_Original ==
    [][ IndexedParsed =>
          (/\ ~exc'
           /\ dec'.pc = "rows"
           /\ dec'.ct_size = (IF dec.ct_size = 0 THEN 2 ^ dec.colors
                              ELSE dec.ct_size)) ]_vars


\* ------------------------------------------------------------------------
\* Assembler and viper versions of the bus routines
\* ------------------------------------------------------------------------
ASFns == {"fillSCR_AS", "displaySCR_AS", "displaySCR565_AS",
          "tft_cmd_data_AS", "tft_write_data_AS", "tft_read_cmd_data_AS"}

ViperFns == {"fillSCR", "displaySCR", "displaySCR565",
             "tft_cmd_data", "tft_write_data", "tft_read_cmd_data"}

\* the accesses the viper routine makes when called with the arguments of c
ViperOf(c) ==
    CASE c.fn = "fillSCR_AS" -> fillSCR(c.data, c.a[1])
      [] c.fn = "displaySCR_AS" -> displaySCR(c.data, c.a[1])
      [] c.fn = "displaySCR565_AS" -> displaySCR565(c.data, c.a[1])
      [] c.fn = "tft_cmd_data_AS" -> tft_cmd_data(c.a[1], c.data, c.a[2])
      [] c.fn = "tft_write_data_AS" -> tft_write_data(c.data, c.a[1])
      [] c.fn = "tft_read_cmd_data_AS" -> tft_read_cmd_data(c.a[1], c.a[2])

\* the count n the routine was called with
CountOf(c) == c.a[Len(c.a)]

\* the bytes the controller has taken and the bytes read back once a routine
\* that was asked for n units has made its last access
UnitsOf(c) ==
    CASE c.fn \in {"fillSCR", "fillSCR_AS", "displaySCR", "displaySCR_AS",
                   "displaySCR565", "displaySCR565_AS"} -> << 3 * CountOf(c), 0 >>
      [] c.fn \in {"tft_cmd_data", "tft_cmd_data_AS"} -> << 1 + CountOf(c), 0 >>
      [] c.fn \in {"tft_write_data", "tft_write_data_AS"} -> << CountOf(c), 0 >>
      [] c.fn \in {"tft_read_cmd_data", "tft_read_cmd_data_AS"} -> << 1, CountOf(c) >>

\* C36: called with the same buffer and the same count n >= 0, an assembler
\* bus routine makes the same accesses to the data lines and the strobes, in
\* the same order, as its viper counterpart; every access made leaves one
\* fewer to make, so the routine ends; when it has ended the controller has
\* taken exactly n units (3n bytes of n pixels, n payload bytes after the
\* command byte, n bytes read back), all of them data but the command byte,
\* and none when n = 0.
C36_SameAccesses ==
    /\ [][ (Callable /\ call'.fn \in ASFns) => (prog' = ViperOf(call')) ]_vars
    /\ [][ (prog # <<>>) => (Len(prog') = Len(prog) - 1) ]_vars
    /\ []((Done /\ call.fn \in (ASFns \cup ViperFns))
            => (/\ << Len(sent), Len(rdata) >> = UnitsOf(call)
                /\ \A i \in 1..Len(sent) :
                     sent[i].cmd <=> (i = 1 /\ call.fn \in {"tft_cmd_data", "tft_cmd_data_AS",
                                                            "tft_read_cmd_data",
                                                            "tft_read_cmd_data_AS"})
                /\ (CountOf(call) = 0
                      => (rdata = <<>> /\ \A i \in 1..Len(sent) : sent[i].cmd))))

\* the assembler write loop has gone round as often as the bound allows
C36_Witness ==
    /\ Done /\ call.fn = "tft_write_data_AS"
    /\ call.a = << MaxBytes >> /\ Len(sent) = MaxBytes


\* ------------------------------------------------------------------------
\* Lines
\* ------------------------------------------------------------------------
\* a line has been drawn between two points of the panel
LineDrawn == call.fn = "drawLine" /\ prog = <<>>

\* C37 as claimed: drawLine(x1, y1, x2, y2) ends, the pixels it has written
\* include (x1, y1) and (x2, y2), its stepping loop writes (x2, y2) last,
\* and the set of the pixels written is the one drawLine(x2, y2, x1, y1)
\* writes, for every pair of end points, lines given right to left or
\* bottom to top and end points one pixel apart included.
C37_Original ==
    LineDrawn =>
        LET x1 == call.a[1]
            y1 == call.a[2]
            x2 == call.a[3]
            y2 == call.a[4]
        IN  /\ << x1, y1 >> \in PixelSet(windows)
            /\ << x2, y2 >> \in PixelSet(windows)
            /\ ((x1 # x2 /\ y1 # y2)
                  => PixelsOf(windows[Len(windows)]) = { << x2, y2 >> })
            /\ PixelSet(windows) = PixelSet(drawLine(x2, y2, x1, y1))


\* ------------------------------------------------------------------------
\* Orientation and window addressing
\* ------------------------------------------------------------------------
\* the range that follows the command byte at position i of a window setup
RangeEnd(i) == Word(i + 3)

\* C38 as claimed: whatever tft_init and set_tft_mode calls have been made,
\* setXY is setXY_P when the stored orientation is portrait and setXY_L
\* when it is landscape, so that clrXY addresses the whole panel memory:
\* the columns 0 .. disp_x_size (0x2A) and the pages 0 .. disp_y_size
\* (0x2B), the size that getScreensize reports.
C38_Original ==
    /\ mytft.setXY = (IF mytft.orientation = PORTRAIT THEN "setXY_P" ELSE "setXY_L")
    /\ (Done /\ call.fn \in WindowFns /\ call.aux = << "clrXY" >>)
         => (/\ Len(sent) = 11
             /\ RangeEnd(IF sent[1].byte = 42 THEN 1 ELSE 6) = disp_x_size
             /\ RangeEnd(IF sent[1].byte = 43 THEN 1 ELSE 6) = disp_y_size
             /\ getScreensize(mytft) = << call.a[3] + 1, call.a[4] + 1 >>)


\* ------------------------------------------------------------------------
\* Stream lengths
\* ------------------------------------------------------------------------
\* the number of pixels the window holds
WindowArea(w) == (w.x2 - w.x1 + 1) * (w.y2 - w.y1 + 1)

\* C39 as claimed: every stream of pixels a drawing primitive or the text
\* renderer issues is as long as the window set right before it holds
\* pixels, (x2 - x1 + 1) * (y2 - y1 + 1): none wraps around inside its
\* window and none leaves it partly filled.
C39_Original == \A i \in 1..Len(windows) : windows[i].n = WindowArea(windows[i])


\* ------------------------------------------------------------------------
\* Test mode
\* ------------------------------------------------------------------------
\* C40 as claimed: with the USB serial link connected the standby is never
\* entered; when the inactivity counter or the total counter has run out the
\* notice is shown and the loop goes on: the inactivity counter is COUNTER
\* again, the activity flag is cleared, and the total counter is 0 if it
\* had exceeded TOTAL_COUNTER and unchanged otherwise.
C40_Original ==
    /\ [](pc \in {"standby", "stopped", "woken"} => ~TESTMODE)
    /\ [][ (pc = "flag_check" /\ TESTMODE /\ pc' # pc) => (pc' # "standby") ]_vars
    /\ [][ (pc = "notice" /\ pc' # pc)
             => (/\ pc' = "loop_top"
                 /\ start' = COUNTER
                 /\ PIR_flag' = FALSE
                 /\ total_cnt' = (IF total_cnt > TOTAL_COUNTER THEN 0 ELSE total_cnt)) ]_vars

====
